---- MODULE Spec2Model ----
(***************************************************************************)
(* A model of the m17n drawing module (draw.c): the glyph-string composer, *)
(* the built-in bidi reorderer, the layouter, the line breaker and the     *)
(* glyph-string cache of get_gstring.                                      *)
(*                                                                         *)
(* A glyph buffer is a sequence; the C index i of gstring->glyphs is the   *)
(* sequence index i + 1 (MGLYPH below).                                    *)
(***************************************************************************)
EXTENDS Integers, Sequences, FiniteSets, TLC

VARIABLES mt, faceprop, control, frame, ticks, rfrom, rpos, rto, gstring,
          logical, pc, props, result, calls, args, obj, core, plist

vars == <<mt, faceprop, control, frame, ticks, rfrom, rpos, rto, gstring,
          logical, pc, props, result, calls, args, obj, core, plist>>

(* ----------------------------- bounds --------------------------------- *)
MaxLen == 2        \* longest text of the layout specification
MaxBidiLen == 3    \* longest text of the bidi specification
MaxBreakLen == 3   \* longest text of the line-break specification
MaxTruncLen == 4   \* longest text of the truncation specification
MaxCacheLen == 2   \* longest text of the cache specification
MaxCalls == 2      \* most calls of get_gstring in a behaviour

(* --------------------------- C arithmetic ----------------------------- *)
\* C integer division truncates toward zero.
CDiv(a, b) == IF a >= 0 THEN a \div b ELSE -((-a) \div b)

MAX(x, y) == IF x > y THEN x ELSE y
MIN(x, y) == IF x < y THEN x ELSE y

(* ---------------------------- characters ------------------------------ *)
SPC == 32
TAB == 9
NL == 10
BEL == 7          \* a control character, shown as ^G
ChA == 97         \* 'a'
ChJ == 106        \* 'j'
ALEF == 1488      \* U+05D0, bidi category R
ARALEF == 1575    \* U+0627, bidi category AL
ACUTE == 769      \* U+0301, category Mn, combining class 230
GRAVEBELOW == 790 \* U+0316, category Mn, combining class 220
CIRCLE == 8413    \* U+20DD, category Me, combining class 0
LRM == 8206       \* U+200E, category Cf

MCHAR_INVALID_CODE == -1

\* mchar_get_prop (c, Mcategory)
CharCategory(c) ==
  CASE c \in {ACUTE, GRAVEBELOW} -> "Mn"
    [] c = CIRCLE -> "Me"
    [] c = LRM -> "Cf"
    [] c \in {ALEF, ARALEF} -> "Lo"
    [] OTHER -> "nil"

\* mchar_get_prop (c, Mscript)
CharScript(c) ==
  CASE c \in {ACUTE, GRAVEBELOW, CIRCLE} -> "inherited"
    [] c = ALEF -> "hebrew"
    [] c = ARALEF -> "arabic"
    [] OTHER -> "nil"

\* mchar_get_prop (c, Mcombining_class)
CharCombiningClass(c) ==
  CASE c = ACUTE -> 230
    [] c = GRAVEBELOW -> 220
    [] OTHER -> 0

\* mchar_get_prop (c, Mbidi_category)
CharBidiCategory(c) ==
  CASE c = ALEF -> "R"
    [] c = ARALEF -> "AL"
    [] c \in {ACUTE, GRAVEBELOW, CIRCLE} -> "NSM"
    [] c \in {SPC} -> "WS"
    [] c \in {TAB} -> "S"
    [] c \in {NL} -> "B"
    [] c \in {BEL} -> "BN"
    [] OTHER -> "L"

\* a mutation of BidiRTL: Arabic letters are not taken as right-to-left
BidiRTL_NoAL(c) == CharBidiCategory(c) \in {"R", "RLE", "RLO"}

\* the test of visual_order: the category is R, AL, RLE or RLO
BidiRTL(c) ==
  LET bidi == CharBidiCategory(c)
  IN bidi = "R" \/ bidi = "AL" \/ bidi = "RLE" \/ bidi = "RLO"

(* -------------------------- faces and fonts --------------------------- *)
\* A realized face: 0 is frame->rface (the default face), 1 a face with a
\* box, 2 a face for which no font could be realized, 3 a face whose font
\* declares a layouter.  -1 stands for NULL.
NullFace == -1

RFace(f) ==
  CASE f = 1 -> [box |-> 1, rfont |-> TRUE, space_width |-> 5,
                 ascent |-> 9, descent |-> 3]
    [] f = 2 -> [box |-> 0, rfont |-> FALSE, space_width |-> 5,
                 ascent |-> 0, descent |-> 0]
    [] OTHER -> [box |-> 0, rfont |-> TRUE, space_width |-> 5,
                 ascent |-> 8, descent |-> 2]

\* rface->rfont->layouter != Mnil: the font of face 3 declares a layouter
Layouter(f) == f = 3

\* MFaceBoxProp of the boxed face
Box(b) == [width |-> 1, inner_hmargin |-> 1, outer_hmargin |-> 1,
           inner_vmargin |-> 1, outer_vmargin |-> 0]

\* rfont->font.property[MFONT_SIZE]
FontSize(f) == 200

\* mfont__encode_char: the fonts have no glyph for U+200E
EncodeChar(f, c) ==
  IF ~RFace(f).rfont \/ c = LRM THEN MCHAR_INVALID_CODE ELSE c

\* mfont__get_metric: the metrics the font driver reports for one glyph
Metric(c) ==
  CASE c = ChJ -> [width |-> 6, lbearing |-> -3, rbearing |-> 8,
                   ascent |-> 7, descent |-> 4]
    [] c \in {ACUTE, GRAVEBELOW, CIRCLE} ->
                  [width |-> 4, lbearing |-> 0, rbearing |-> 4,
                   ascent |-> 3, descent |-> -1]
    [] OTHER ->   [width |-> 6, lbearing |-> 0, rbearing |-> 6,
                   ascent |-> 7, descent |-> 1]

(* ------------------------------ glyphs -------------------------------- *)
\* INIT_GLYPH
INIT_GLYPH ==
  [type |-> "CHAR", c |-> 0, code |-> 0, pos |-> 0, to |-> 0,
   rface |-> NullFace, category |-> "nil", combining_code |-> 0,
   bidi_level |-> 0, width |-> 0, lbearing |-> 0, rbearing |-> 0,
   ascent |-> 0, descent |-> 0, xoff |-> 0, yoff |-> 0,
   left_padding |-> FALSE, right_padding |-> FALSE]

MGLYPH(glyphs, idx) == glyphs[idx + 1]

SetGlyph(glyphs, idx, g) ==
  [i \in 1..Len(glyphs) |-> IF i = idx + 1 THEN g ELSE glyphs[i]]

APPEND_GLYPH(glyphs, g) ==
  [i \in 1..(Len(glyphs) + 1) |-> IF i <= Len(glyphs) THEN glyphs[i] ELSE g]

INSERT_GLYPH(glyphs, at, g) ==
  [i \in 1..(Len(glyphs) + 1) |->
     IF i <= at THEN glyphs[i] ELSE IF i = at + 1 THEN g ELSE glyphs[i - 1]]

\* the concatenation of two buffers
Concat(s, t) ==
  [i \in 1..(Len(s) + Len(t)) |-> IF i <= Len(s) THEN s[i] ELSE t[i - Len(s)]]

(* -------------------------- combining codes --------------------------- *)
MAKE_COMBINING_CODE(base_y, base_x, add_y, add_x, off_y, off_x) ==
  off_y * 65536 + off_x * 256 + base_x * 64 + base_y * 16 + add_x * 4 + add_y

COMBINING_CODE_OFF_Y(code) == (code \div 65536) % 256
COMBINING_CODE_OFF_X(code) == (code \div 256) % 256
COMBINING_CODE_BASE_X(code) == (code \div 64) % 4
COMBINING_CODE_BASE_Y(code) == (code \div 16) % 4
COMBINING_CODE_ADD_X(code) == (code \div 4) % 4
COMBINING_CODE_ADD_Y(code) == code % 4

MAKE_COMBINING_CODE_BY_CLASS(class) == 16777216 + class
COMBINING_BY_CLASS_P(code) == (code \div 16777216) % 2 = 1
COMBINING_CODE_CLASS(code) == code % 16777216

(* ------------------------------- text --------------------------------- *)
mtext_nchars(text) == Len(text)

\* mtext_ref_char; -1 outside the text
mtext_ref_char(text, pos) ==
  IF pos >= 0 /\ pos < Len(text) THEN text[pos + 1] ELSE -1

\* mtext_get_prop_values (mt, pos, Mface, ..): the face of the one face
\* property [fp.from, fp.to), 0 when pos carries none
FaceAt(fp, pos) == IF fp.from <= pos /\ pos < fp.to THEN fp.face ELSE 0

\* mtext_prop_range (mt, Mface, pos, NULL, &face_change, 1)
FaceRangeEnd(text, fp, pos) ==
  IF fp.from < fp.to /\ pos < fp.from THEN fp.from
  ELSE IF fp.from < fp.to /\ pos < fp.to THEN fp.to
  ELSE Len(text)

\* mtext_character (mt, pos, 0, '\n'): the last newline before pos, or -1
RECURSIVE mtext_character(_, _)
mtext_character(text, pos) ==
  IF pos <= 0 THEN -1
  ELSE IF mtext_ref_char(text, pos - 1) = NL THEN pos - 1
  ELSE mtext_character(text, pos - 1)

(* ----------------------------- composer ------------------------------- *)
\* mface__for_chars: gives the glyphs [from, used) their glyph codes
ForChars(glyphs, from) ==
  [i \in 1..Len(glyphs) |->
     IF i >= from + 1
     THEN [glyphs[i] EXCEPT !.code = EncodeChar(glyphs[i].rface, glyphs[i].c)]
     ELSE glyphs[i]]

\* the forward search for a character with an explicit script
RECURSIVE SearchScript(_, _, _)
SearchScript(text, i, to) ==
  IF i >= to THEN "nil"
  ELSE LET c1 == mtext_ref_char(text, i)
           sym == IF c1 > 32 /\ c1 < 256 THEN "latin" ELSE CharScript(c1)
       IN IF sym # "inherited" /\ sym # "nil" THEN sym
          ELSE SearchScript(text, i + 1, to)

\* the classification at the top of the loop: <<type, category, script>>
Classify(text, c, pos, to, script) ==
  IF c < 256
  THEN IF c = SPC \/ c = NL \/ c = TAB
       THEN [type |-> "SPACE", category |-> "nil", script |-> "nil"]
       ELSE [type |-> "CHAR", category |-> "nil", script |-> "latin"]
  ELSE LET s0 == CharScript(c)
           s1 == IF s0 = "inherited" \/ s0 = "nil" THEN script ELSE s0
           s2 == IF s1 = "nil" THEN SearchScript(text, pos + 1, to) ELSE s1
       IN [type |-> "CHAR", category |-> CharCategory(c), script |-> s2]

\* g_tmp as the loop fills it for the character c at pos
CharGlyph(g_tmp, k, c, pos, rface) ==
  [g_tmp EXCEPT !.category = k.category, !.type = k.type, !.c = c,
                !.pos = pos, !.to = pos + 1, !.rface = rface]

\* the block at the head of the loop body that ends a run of glyphs: the
\* run gets its glyph codes and, at `stop', the faces and the next stop
\* are found; flush is the condition of the block
FlushRun(s, text, fp, to, k, flush) ==
  LET nchars == mtext_nchars(text)
      glyphs1 == IF flush /\ MGLYPH(s.glyphs, s.last).type # "ANCHOR"
                 THEN ForChars(s.glyphs, s.last) ELSE s.glyphs
      atstop == flush /\ s.pos = s.stop
      inside == s.pos < nchars
      language_change == IF atstop /\ inside /\ s.pos = s.language_change
                         THEN nchars ELSE s.language_change
      charset_change == IF atstop /\ inside /\ s.pos = s.charset_change
                        THEN nchars ELSE s.charset_change
      newface == atstop /\ inside /\ s.pos = s.face_change
      face_change == IF newface THEN FaceRangeEnd(text, fp, s.pos)
                     ELSE s.face_change
  IN [glyphs |-> glyphs1, pos |-> s.pos,
      stop |-> IF atstop
               THEN MIN(face_change,
                        MIN(charset_change, MIN(language_change, to)))
               ELSE s.stop,
      face_change |-> face_change,
      language_change |-> language_change,
      charset_change |-> charset_change,
      script |-> IF flush THEN k.script ELSE s.script,
      rface |-> IF newface THEN FaceAt(fp, s.pos) ELSE s.rface,
      last |-> IF flush THEN Len(glyphs1) ELSE s.last,
      g_tmp |-> s.g_tmp, diverged |-> FALSE]

\* the rest of the loop body: the glyph of the character c is appended (two
\* glyphs, ^ and a letter, for a control character)
AppendChar(s, c, k) ==
  LET g_tmp == CharGlyph(s.g_tmp, k, c, s.pos, s.rface)
  IN [glyphs |-> IF (c <= 32 \/ c = 127) /\ k.type = "CHAR"
                 THEN APPEND_GLYPH(
                        APPEND_GLYPH(s.glyphs,
                          [g_tmp EXCEPT !.c = 94,
                                        !.code = EncodeChar(s.rface, 94)]),
                        [g_tmp EXCEPT !.c = IF c < SPC THEN c + 64 ELSE 63,
                                      !.code = EncodeChar(s.rface,
                                                 IF c < SPC THEN c + 64
                                                 ELSE 63)])
                 ELSE APPEND_GLYPH(s.glyphs, g_tmp),
      pos |-> s.pos + 1, stop |-> s.stop, face_change |-> s.face_change,
      language_change |-> s.language_change,
      charset_change |-> s.charset_change, script |-> s.script,
      rface |-> s.rface, last |-> s.last, g_tmp |-> g_tmp,
      diverged |-> FALSE]

\* the character loop of compose_glyph_string; ComposeChar is one turn of
\* it for the character c of classification k
RECURSIVE ComposeLoop(_, _, _, _, _)
ComposeChar(s, text, fp, to, ctl, c, k) ==
  LET flush == \/ s.pos = s.stop
               \/ s.script # k.script
               \/ MGLYPH(s.glyphs, s.last).type # k.type
  IN IF flush /\ s.pos = to
     THEN [s EXCEPT !.glyphs = FlushRun(s, text, fp, to, k, flush).glyphs,
                    !.g_tmp = [s.g_tmp EXCEPT !.category = k.category,
                                              !.type = k.type]]
     ELSE IF s.pos > MAX(to, mtext_nchars(text)) + 1
     THEN [s EXCEPT !.diverged = TRUE]
     ELSE IF c = NL /\ ctl.two_dimensional
     THEN AppendChar(FlushRun(s, text, fp, to, k, flush), c, k)
     ELSE ComposeLoop(AppendChar(FlushRun(s, text, fp, to, k, flush), c, k),
                      text, fp, to, ctl)

ComposeLoop(s, text, fp, to, ctl) ==
  ComposeChar(s, text, fp, to, ctl,
              IF s.pos < mtext_nchars(text) THEN mtext_ref_char(text, s.pos)
              ELSE NL,
              Classify(text,
                       IF s.pos < mtext_nchars(text)
                       THEN mtext_ref_char(text, s.pos) ELSE NL,
                       s.pos, to, s.script))

\* one pass of the bubble sort of reorder_combining_chars, from glyph index
\* g up to gend; r is the flag `reordered'
RECURSIVE ReorderPass(_, _, _, _)
ReorderPass(glyphs, g, gend, r) ==
  IF g = gend THEN [glyphs |-> glyphs, reordered |-> r]
  ELSE LET cur == MGLYPH(glyphs, g)
           prev == MGLYPH(glyphs, g - 1)
       IN IF /\ COMBINING_CODE_CLASS(cur.combining_code) > 0
             /\ COMBINING_CODE_CLASS(prev.combining_code)
                  > COMBINING_CODE_CLASS(cur.combining_code)
          THEN ReorderPass(SetGlyph(SetGlyph(glyphs, g, prev), g - 1, cur),
                           g + 1, gend, TRUE)
          ELSE ReorderPass(glyphs, g + 1, gend, r)

\* a variant of reorder_combining_chars that makes one pass only
ReorderOnce(glyphs, from, to) ==
  ReorderPass(glyphs, from + 1, to, FALSE).glyphs

RECURSIVE reorder_combining_chars(_, _, _)
reorder_combining_chars(glyphs, from, to) ==
  LET p == ReorderPass(glyphs, from + 1, to, FALSE)
  IN IF p.reordered THEN reorder_combining_chars(p.glyphs, from, to)
     ELSE p.glyphs

\* the test of the inner while loop of the shaping pass (no layouter)
IsClassMark(g) ==
  /\ g.type = "CHAR"
  /\ g.c >= 256
  /\ g.category # "nil"
  /\ g.category \in {"Mn", "Mc", "Me"}
  /\ RFace(g.rface).rfont
  /\ ~Layouter(g.rface)

\* marks the glyphs from index j on with by-class combining codes; returns
\* the buffer and the index of the first glyph that is not such a mark
RECURSIVE MarkRun(_, _)
MarkRun(glyphs, j) ==
  LET this == MGLYPH(glyphs, j)
  IN IF IsClassMark(this)
     THEN MarkRun(SetGlyph(glyphs, j,
                    [this EXCEPT !.combining_code =
                       MAKE_COMBINING_CODE_BY_CLASS(CharCombiningClass(this.c))]),
                  j + 1)
     ELSE [glyphs |-> glyphs, this |-> j]

\* the backward loop of the shaping pass: the start of the run of glyph
\* index this, extended over the format characters before it that the font
\* encodes
RECURSIVE FltStart(_, _, _)
FltStart(glyphs, this, start) ==
  LET prev == MGLYPH(glyphs, start - 1)
  IN IF /\ prev.type = "CHAR"
        /\ prev.category = "Cf"
        /\ EncodeChar(MGLYPH(glyphs, this).rface, prev.c) # MCHAR_INVALID_CODE
     THEN FltStart(glyphs, this, start - 1)
     ELSE start

\* the forward loop of the shaping pass: the end of the run of glyph index
\* this, i being the first index not yet taken
RECURSIVE FltEnd(_, _, _)
FltEnd(glyphs, this, i) ==
  LET g == MGLYPH(glyphs, i)
  IN IF /\ g.type = "CHAR"
        /\ \/ g.rface = MGLYPH(glyphs, this).rface
           \/ /\ g.category = "Cf"
              /\ EncodeChar(MGLYPH(glyphs, this).rface, g.c)
                   # MCHAR_INVALID_CODE
     THEN FltEnd(glyphs, this, i + 1)
     ELSE i

\* mfont__flt_run (gstring, from, to, rface): the new end index, for a
\* layout table that substitutes nothing
mfont__flt_run(glyphs, from, to) == to

\* the shaping pass of compose_glyph_string from glyph index i; runs
\* collects the ranges handed to mfont__flt_run
RECURSIVE ShapeLoop(_, _, _)
ShapeLoop(glyphs, i, runs) ==
  LET g == MGLYPH(glyphs, i)
  IN IF g.type = "ANCHOR" THEN [glyphs |-> glyphs, runs |-> runs]
     ELSE IF g.type = "CHAR" /\ RFace(g.rface).rfont
     THEN IF Layouter(g.rface)
          THEN ShapeLoop(glyphs,
                         mfont__flt_run(glyphs, FltStart(glyphs, i, i),
                                        FltEnd(glyphs, i, i + 1)),
                         Concat(runs,
                                <<[start |-> FltStart(glyphs, i, i),
                                   end |-> FltEnd(glyphs, i, i + 1)]>>))
          ELSE LET start == i
                   m == MarkRun(glyphs, start)
                   i2 == m.this + 1
                   glyphs2 == IF start + 1 < i2
                              THEN reorder_combining_chars(m.glyphs, start, i2)
                              ELSE m.glyphs
               IN IF MGLYPH(glyphs2, m.this).type = "ANCHOR"
                  THEN [glyphs |-> glyphs2, runs |-> runs]
                  ELSE ShapeLoop(glyphs2, i2, runs)
     ELSE ShapeLoop(glyphs, i + 1, runs)

(* --------------------------- bidi reorderer --------------------------- *)
\* the index after the cluster that starts at glyph index k
RECURSIVE ClusterEnd(_, _)
ClusterEnd(glyphs, k) ==
  IF k < Len(glyphs) - 1 /\ MGLYPH(glyphs, k).combining_code # 0
  THEN ClusterEnd(glyphs, k + 1) ELSE k

\* the first loop of visual_order: idx[] (glyph index of each cluster)
RECURSIVE ClusterStarts(_, _)
ClusterStarts(glyphs, g) ==
  IF MGLYPH(glyphs, g).type = "ANCHOR" THEN <<>>
  ELSE Concat(<<g>>, ClusterStarts(glyphs, ClusterEnd(glyphs, g + 1)))

\* levels[] of the first loop of visual_order
Levels(glyphs, idx) ==
  [n \in 1..Len(idx) |-> IF BidiRTL(MGLYPH(glyphs, idx[n]).c) THEN 1 ELSE 0]

\* the end j of the run of level-1 clusters that starts at i (0-based)
RECURSIVE RunEnd(_, _)
RunEnd(levels, j) ==
  IF j < Len(levels) /\ levels[j + 1] # 0 THEN RunEnd(levels, j + 1) ELSE j

\* indices[] of the built-in level-run reversal (0-based values)
RECURSIVE Indices(_, _, _)
Indices(levels, i, acc) ==
  IF i >= Len(levels) THEN acc
  ELSE IF levels[i + 1] # 0
  THEN LET k == RunEnd(levels, i + 1)
       IN Indices(levels, k, Concat(acc, [n \in 1..(k - i) |-> k - n]))
  ELSE Indices(levels, i + 1, Concat(acc, <<i>>))

\* a mutation of ClusterCopy: the combining glyphs are not copied
ClusterCopy_HeadOnly(glyphs, k, level) ==
  <<[MGLYPH(glyphs, k) EXCEPT !.bidi_level = level]>>

\* the body of the rewriting loop of visual_order: the glyph at k and the
\* combining glyphs after it, each given the level of the cluster
ClusterCopy(glyphs, k, level) ==
  LET e == ClusterEnd(glyphs, k + 1)
  IN [n \in 1..(e - k) |->
        [MGLYPH(glyphs, k + n - 1) EXCEPT !.bidi_level = level]]

\* the rewriting loop of visual_order
RECURSIVE Rewrite(_, _, _, _, _)
Rewrite(glyphs, idx, levels, indices, i) ==
  IF i >= Len(indices) THEN <<>>
  ELSE LET j == indices[i + 1]
           k == idx[j + 1]
       IN Concat(ClusterCopy(glyphs, k, levels[j + 1]),
                 Rewrite(glyphs, idx, levels, indices, i + 1))

visual_order(glyphs, ctl) ==
  LET idx == ClusterStarts(glyphs, 1)
      levels == Levels(glyphs, idx)
      bidi_sensitive == ctl.orientation_reversed
                        \/ \E n \in 1..Len(levels) : levels[n] = 1
      indices == Indices(levels, 0, <<>>)
  IN IF ~bidi_sensitive THEN glyphs
     ELSE Concat(Concat(<<glyphs[1]>>,
                        Rewrite(glyphs, idx, levels, indices, 0)),
                 <<glyphs[Len(glyphs)]>>)

\* compose_glyph_string (frame, mt, from, to, gstring)
compose_glyph_string(text, fp, from, to, ctl) ==
  LET anchor == [INIT_GLYPH EXCEPT !.type = "ANCHOR", !.pos = from,
                                   !.to = from, !.c = 0]
      Ordered(s, shaped) ==
        [from |-> from, to |-> s.pos, diverged |-> s.diverged,
         logical |-> shaped.glyphs, flt_runs |-> shaped.runs,
         glyphs |-> IF ~s.diverged /\ ctl.enable_bidi
                    THEN visual_order(shaped.glyphs, ctl)
                    ELSE shaped.glyphs]
      Shaped(s) ==
        IF s.diverged THEN Ordered(s, [glyphs |-> <<>>, runs |-> <<>>])
        ELSE Ordered(s,
               ShapeLoop(
                 APPEND_GLYPH(s.glyphs,
                   [s.g_tmp EXCEPT !.type = "ANCHOR", !.c = 0,
                                   !.code = MCHAR_INVALID_CODE,
                                   !.pos = s.pos, !.to = s.pos,
                                   !.rface = NullFace]), 1, <<>>))
  IN Shaped(ComposeLoop(
              [glyphs |-> <<anchor>>, pos |-> from, stop |-> from,
               face_change |-> from, language_change |-> from,
               charset_change |-> from, script |-> "nil", rface |-> 0,
               last |-> 0, g_tmp |-> anchor, diverged |-> FALSE],
              text, fp, to, ctl))

(* ------------------------------ layouter ------------------------------ *)
combining_code_from_class(class) ==
  CASE class < 200 -> MAKE_COMBINING_CODE(3, 1, 3, 1, 128, 128)
    [] class = 200 -> MAKE_COMBINING_CODE(2, 0, 0, 1, 128, 128)
    [] class = 202 -> MAKE_COMBINING_CODE(2, 1, 0, 1, 128, 128)
    [] class = 204 -> MAKE_COMBINING_CODE(2, 2, 0, 1, 128, 128)
    [] class = 208 -> MAKE_COMBINING_CODE(3, 0, 3, 2, 128, 128)
    [] class = 210 -> MAKE_COMBINING_CODE(3, 2, 3, 0, 128, 128)
    [] class = 212 -> MAKE_COMBINING_CODE(0, 0, 2, 1, 128, 128)
    [] class = 214 -> MAKE_COMBINING_CODE(0, 1, 2, 1, 128, 128)
    [] class = 216 -> MAKE_COMBINING_CODE(0, 2, 2, 1, 128, 128)
    [] class = 218 -> MAKE_COMBINING_CODE(2, 0, 0, 1, 122, 128)
    [] class = 220 -> MAKE_COMBINING_CODE(2, 1, 0, 1, 122, 128)
    [] class = 222 -> MAKE_COMBINING_CODE(2, 2, 0, 1, 122, 128)
    [] class = 224 -> MAKE_COMBINING_CODE(3, 0, 3, 2, 128, 122)
    [] class = 226 -> MAKE_COMBINING_CODE(3, 2, 3, 0, 128, 133)
    [] class = 228 -> MAKE_COMBINING_CODE(0, 0, 2, 1, 133, 128)
    [] class = 230 -> MAKE_COMBINING_CODE(0, 1, 2, 1, 133, 128)
    [] class = 232 -> MAKE_COMBINING_CODE(0, 2, 2, 1, 133, 128)
    [] class = 233 -> MAKE_COMBINING_CODE(2, 2, 0, 2, 122, 128)
    [] class = 234 -> MAKE_COMBINING_CODE(0, 2, 2, 2, 133, 128)
    [] class = 240 -> MAKE_COMBINING_CODE(2, 1, 0, 1, 122, 128)
    [] OTHER -> MAKE_COMBINING_CODE(3, 1, 3, 1, 128, 128)

\* mfont__get_metric (gstring, from, to)
GetMetric(glyphs, from, to) ==
  [i \in 1..Len(glyphs) |->
     IF from + 1 <= i /\ i <= to
     THEN LET m == Metric(glyphs[i].c)
          IN [glyphs[i] EXCEPT !.width = m.width, !.lbearing = m.lbearing,
                               !.rbearing = m.rbearing, !.ascent = m.ascent,
                               !.descent = m.descent]
     ELSE glyphs[i]]

\* the loop of layout_glyphs over the combining glyphs of one cluster;
\* k holds the running box (left, right, top, bottom, ..) and the index g
RECURSIVE CombineLoop(_, _)
CombineLoop(k, last_g) ==
  IF k.g = last_g \/ MGLYPH(k.glyphs, k.g).combining_code = 0 THEN k
  ELSE
    LET \* the box of the cluster grown by the glyph g0 put at (xoff, yoff)
        Place(g0, combining_code, xoff, yoff) ==
          LET left == IF xoff < k.left THEN xoff ELSE k.left
              right == IF xoff + g0.width > k.right THEN xoff + g0.width
                       ELSE k.right
              top == IF yoff - g0.ascent < k.top THEN yoff - g0.ascent
                     ELSE k.top
              bottom == IF yoff + g0.descent > k.bottom
                        THEN yoff + g0.descent ELSE k.bottom
          IN [glyphs |-> SetGlyph(k.glyphs, k.g,
                           [g0 EXCEPT !.combining_code = combining_code,
                                      !.xoff = xoff, !.yoff = yoff,
                                      !.width = 0]),
              g |-> k.g + 1,
              left |-> left, right |-> right, top |-> top,
              bottom |-> bottom, height |-> bottom - top,
              width |-> right - left,
              lbearing |-> IF xoff + g0.lbearing < left + k.lbearing
                           THEN xoff + g0.lbearing - left ELSE k.lbearing,
              rbearing |-> IF xoff + g0.rbearing > left + k.rbearing
                           THEN xoff + g0.rbearing - left ELSE k.rbearing,
              begin |-> IF k.begin > g0.pos THEN g0.pos ELSE k.begin,
              end |-> IF k.begin > g0.pos THEN k.end
                      ELSE IF k.end < g0.to THEN g0.to ELSE k.end]
        \* the offsets the combining code asks for
        Offsets(g0, combining_code) ==
          LET size == FontSize(g0.rface)
              base_y == COMBINING_CODE_BASE_Y(combining_code)
              add_y == COMBINING_CODE_ADD_Y(combining_code)
              yoff0 == IF base_y < 3 THEN k.top + CDiv(k.height * base_y, 2)
                       ELSE 0
          IN Place(g0, combining_code,
                   k.left
                   + CDiv(k.width * COMBINING_CODE_BASE_X(combining_code)
                          - g0.width * COMBINING_CODE_ADD_X(combining_code),
                          2)
                   + CDiv(size * (COMBINING_CODE_OFF_X(combining_code) - 128),
                          1000),
                   (IF add_y < 3
                    THEN yoff0 - (CDiv((g0.ascent + g0.descent) * add_y, 2)
                                  - g0.ascent)
                    ELSE yoff0)
                   - CDiv(size * (COMBINING_CODE_OFF_Y(combining_code) - 128),
                          1000))
        Combine(g0) ==
          Offsets(g0,
                  IF COMBINING_BY_CLASS_P(g0.combining_code)
                  THEN combining_code_from_class(
                         COMBINING_CODE_CLASS(g0.combining_code))
                  ELSE g0.combining_code)
    IN CombineLoop(Combine(MGLYPH(k.glyphs, k.g)), last_g)

\* one cluster of layout_glyphs, starting at glyph index b; returns the
\* buffer, the index after the cluster and the cluster's bearings
LayoutCluster(glyphs, b, last_g) ==
  LET base == MGLYPH(glyphs, b)
      \* No combining.
      Single(b2) ==
        [glyphs |-> SetGlyph(glyphs, b, b2), g |-> b + 1,
         lbearing |-> IF b2.lbearing < 0 THEN b2.lbearing ELSE 0,
         rbearing |-> b2.rbearing]
      PadRight(b1) ==
        Single(IF b1.right_padding /\ b1.rbearing > b1.width
               THEN [b1 EXCEPT !.width = b1.rbearing] ELSE b1)
      \* With combining glyphs.
      Cluster(k, b3) ==
        [glyphs |-> [i \in 1..Len(glyphs) |->
                       IF i = b + 1
                       THEN [b3 EXCEPT !.pos = k.begin, !.to = k.end]
                       ELSE IF b + 1 < i /\ i <= k.g
                       THEN [k.glyphs[i] EXCEPT
                               !.xoff = IF k.right > 0 THEN @ - k.right
                                        ELSE @,
                               !.pos = k.begin, !.to = k.end]
                       ELSE k.glyphs[i]],
         g |-> k.g, lbearing |-> k.lbearing, rbearing |-> k.rbearing]
      GrowRight(k, b2) ==
        Cluster(k, IF k.right > 0
                   THEN [b2 EXCEPT !.width = b2.width + k.right,
                                   !.rbearing = b2.rbearing + k.right,
                                   !.right_padding = TRUE]
                   ELSE b2)
      GrowLeft(k, b1) ==
        GrowRight(k, IF k.left < - b1.width
                     THEN [b1 EXCEPT
                             !.xoff = - b1.width - k.left,
                             !.width = b1.width + (- b1.width - k.left),
                             !.rbearing = b1.rbearing + (- b1.width - k.left),
                             !.lbearing = b1.lbearing + (- b1.width - k.left)]
                     ELSE b1)
      Combined(k) ==
        GrowLeft(k, [base EXCEPT !.ascent = - k.top, !.descent = k.bottom,
                                 !.lbearing = k.lbearing,
                                 !.rbearing = k.rbearing])
  IN IF b + 1 = last_g \/ MGLYPH(glyphs, b + 1).combining_code = 0
     THEN PadRight(IF base.left_padding /\ base.lbearing < 0
                   THEN [base EXCEPT
                           !.xoff = - base.lbearing,
                           !.width = base.width - base.lbearing,
                           !.rbearing = base.rbearing - base.lbearing,
                           !.lbearing = 0]
                   ELSE base)
     ELSE Combined(CombineLoop(
                     [glyphs |-> glyphs, g |-> b + 1, left |-> - base.width,
                      right |-> 0, top |-> - base.ascent,
                      bottom |-> base.descent,
                      height |-> base.descent + base.ascent,
                      width |-> base.width,
                      lbearing |-> IF base.lbearing < 0 THEN base.lbearing
                                   ELSE 0,
                      rbearing |-> base.rbearing, begin |-> base.pos,
                      end |-> base.to], last_g))

\* the cluster loop of layout_glyphs; a holds the g_* accumulators
RECURSIVE LayoutGlyphsLoop(_, _)
LayoutGlyphsLoop(a, last_g) ==
  LET Accumulate(c, base) ==
        [glyphs |-> c.glyphs, g |-> c.g,
         physical_ascent |-> MAX(a.physical_ascent, base.ascent),
         physical_descent |-> MAX(a.physical_descent, base.descent),
         sub_lbearing |-> MIN(a.sub_lbearing, a.sub_width + c.lbearing),
         sub_rbearing |-> MAX(a.sub_rbearing, a.sub_width + c.rbearing),
         sub_width |-> a.sub_width + base.width]
      Added(c) == Accumulate(c, MGLYPH(c.glyphs, a.g))
  IN IF a.g >= last_g THEN a
     ELSE LayoutGlyphsLoop(Added(LayoutCluster(a.glyphs, a.g, last_g)),
                           last_g)

\* layout_glyphs (frame, gstring, from, to)
layout_glyphs(glyphs, physical_ascent, physical_descent, from, to) ==
  LayoutGlyphsLoop([glyphs |-> GetMetric(glyphs, from, to), g |-> from,
                    physical_ascent |-> physical_ascent,
                    physical_descent |-> physical_descent,
                    sub_lbearing |-> 0, sub_rbearing |-> 0,
                    sub_width |-> 0], to)

\* a mutation of BoxGlyph: the Box glyph covers no character
BoxGlyph_EmptyRange(src, ctl, fr, b, left) ==
  LET w == IF ctl.fixed_width THEN fr.space_width
           ELSE Box(b).inner_hmargin + Box(b).width + Box(b).outer_hmargin
  IN [src EXCEPT !.type = "BOX", !.width = w, !.lbearing = 0,
                 !.rbearing = w, !.xoff = 0, !.to = src.pos,
                 !.left_padding = IF left THEN TRUE ELSE @,
                 !.right_padding = IF left THEN @ ELSE TRUE]

\* the Box glyph made from glyph src for one side of box b
BoxGlyph(src, ctl, fr, b, left) ==
  LET w == IF ctl.fixed_width THEN fr.space_width
           ELSE Box(b).inner_hmargin + Box(b).width + Box(b).outer_hmargin
  IN [src EXCEPT !.type = "BOX", !.width = w, !.lbearing = 0,
                 !.rbearing = w, !.xoff = 0,
                 !.left_padding = IF left THEN TRUE ELSE @,
                 !.right_padding = IF left THEN @ ELSE TRUE]

\* the box-edge insertion at the top of the loop of layout_glyph_string
BoxEdges(L, ctl, fr) ==
  LET g == MGLYPH(L.glyphs, L.g)
      \* the right edge of the box that ends before g
      Closed(bg) ==
        [L EXCEPT !.glyphs = INSERT_GLYPH(@, L.g, bg), !.g = @ + 1,
                  !.width = @ + bg.width, !.rbearing = @ + bg.width]
      \* the left edge of the box that starts at g
      Opened(L1, box, bg) ==
        [L1 EXCEPT !.glyphs = INSERT_GLYPH(@, L1.g, bg),
                   !.g = @ + 1, !.box = box,
                   !.box_line_height =
                     MAX(@, Box(box).width + Box(box).inner_vmargin
                            + Box(box).outer_vmargin),
                   !.width = @ + bg.width,
                   !.rbearing = @ + bg.width]
      Open(L1, box) ==
        IF box # 0 THEN Opened(L1, box, BoxGlyph(g, ctl, fr, box, TRUE))
        ELSE [L1 EXCEPT !.box = box]
  IN IF L.box = RFace(g.rface).box THEN L
     ELSE Open(IF L.box # 0
               THEN Closed(BoxGlyph(MGLYPH(L.glyphs, L.g - 1), ctl, fr,
                                    L.box, FALSE))
               ELSE L,
               RFace(g.rface).box)

\* the end of the run of Char glyphs that starts at index from
RECURSIVE RunOfChars(_, _, _, _, _)
RunOfChars(glyphs, from, g, box, ctl) ==
  LET fromg == MGLYPH(glyphs, from)
      gg == MGLYPH(glyphs, g)
  IN IF gg.type # "CHAR" THEN g
     ELSE IF \/ RFace(fromg.rface).rfont # RFace(gg.rface).rfont
             \/ box # RFace(gg.rface).box
             \/ (fromg.code = MCHAR_INVALID_CODE)
                  # (gg.code = MCHAR_INVALID_CODE)
             \/ (gg.category = "Cf" /\ ctl.ignore_formatting_char)
     THEN g
     ELSE RunOfChars(glyphs, from, g + 1, box, ctl)

\* whether the left-padding Pad is inserted: GLYPH_INDEX (g) is the index
\* after the run
InsertLeftPad(extra_width, gidx, ctl) ==
  extra_width > 0 /\ (gidx > 1 \/ ctl.align_head)

\* the branch of layout_glyph_string for a run of Char glyphs of a font
LayoutRun(L, from, to0, ctl) ==
  LET rface == MGLYPH(L.glyphs, from).rface
      \* the right padding and the sums of the line; m is the result of
      \* layout_glyphs and q the run after the left padding
      RightPad(m, q) ==
        LET rextra == q.sub_rbearing - q.sub_width
            nextg == MGLYPH(q.glyphs, q.to)
            rpad == rextra > 0 /\ nextg.type = "SPACE"
                    /\ L.box = RFace(nextg.rface).box
            lastg == MGLYPH(q.glyphs, q.to - 1)
            sub_width3 == IF rextra > 0 THEN q.sub_width + rextra
                          ELSE q.sub_width
        IN [L EXCEPT
              !.glyphs = IF rextra <= 0 THEN q.glyphs
                         ELSE IF rpad
                         THEN INSERT_GLYPH(q.glyphs, q.to,
                                [lastg EXCEPT !.type = "PAD", !.xoff = 0,
                                              !.lbearing = 0,
                                              !.width = rextra,
                                              !.rbearing = 1])
                         ELSE SetGlyph(q.glyphs, q.to - 1,
                                [lastg EXCEPT !.width = @ + rextra]),
              !.g = IF rpad THEN q.to + 1 ELSE q.to,
              !.physical_ascent = m.physical_ascent,
              !.physical_descent = m.physical_descent,
              !.sub_width = sub_width3, !.sub_lbearing = q.sub_lbearing,
              !.sub_rbearing = q.sub_rbearing,
              !.lbearing = IF @ > q.width + q.sub_lbearing
                           THEN q.width + q.sub_lbearing ELSE @,
              !.rbearing = IF q.rbearing < q.width + q.sub_rbearing
                           THEN q.width + q.sub_rbearing ELSE q.rbearing,
              !.width = q.width + sub_width3,
              !.ascent = MAX(@, RFace(rface).ascent),
              !.descent = MAX(@, RFace(rface).descent)]
      \* the left Pad of width lextra is in glyphs1; a Space before it
      \* gives up width for it
      Absorb(m, lextra, glyphs1) ==
        LET sp == MGLYPH(glyphs1, from - 1)
            absorb == sp.type = "SPACE"
            whole == lextra + 2 < sp.width
            lextra2 == IF whole THEN lextra ELSE lextra - (sp.width - 2)
        IN RightPad(m,
             [glyphs |-> IF absorb
                         THEN SetGlyph(glyphs1, from - 1,
                                [sp EXCEPT !.width = IF whole THEN @ - lextra
                                                     ELSE 2])
                         ELSE glyphs1,
              to |-> to0 + 1, sub_lbearing |-> 0,
              sub_width |-> m.sub_width + lextra,
              sub_rbearing |-> m.sub_rbearing + lextra,
              width |-> IF absorb THEN L.width - lextra2 ELSE L.width,
              rbearing |-> IF absorb THEN L.rbearing - lextra2
                           ELSE L.rbearing])
      LeftPad(m) ==
        IF InsertLeftPad(- m.sub_lbearing, to0, ctl)
        THEN Absorb(m, - m.sub_lbearing,
                    INSERT_GLYPH(m.glyphs, from,
                      [MGLYPH(m.glyphs, from) EXCEPT
                         !.type = "PAD", !.xoff = 0, !.lbearing = 0,
                         !.width = - m.sub_lbearing,
                         !.rbearing = - m.sub_lbearing,
                         !.left_padding = TRUE]))
        ELSE RightPad(m,
               [glyphs |-> m.glyphs, to |-> to0,
                sub_lbearing |-> m.sub_lbearing, sub_width |-> m.sub_width,
                sub_rbearing |-> m.sub_rbearing, width |-> L.width,
                rbearing |-> L.rbearing])
  IN LeftPad(layout_glyphs(L.glyphs, L.physical_ascent, L.physical_descent,
                           from, to0))

\* the branch for a run of Char glyphs without a font or without a code
RECURSIVE LayoutNoFont(_, _, _, _)
LayoutNoFont(L, fromg, g, rface) ==
  IF fromg >= g THEN L
  ELSE LET old == MGLYPH(L.glyphs, fromg)
           w == IF (old.c >= 8203 /\ old.c <= 8207)
                   \/ (old.c >= 8234 /\ old.c <= 8238)
                THEN 1 ELSE RFace(rface).space_width
           new == [old EXCEPT !.width = w, !.rbearing = w, !.xoff = 0,
                              !.lbearing = 0, !.ascent = 0, !.descent = 0]
       IN LayoutNoFont([L EXCEPT !.glyphs = SetGlyph(@, fromg, new),
                                 !.width = @ + w, !.rbearing = @ + w],
                       fromg + 1, g, rface)

\* the width a Space glyph gets before it absorbs a preceding Pad
SpaceWidth(g, L, ctl, tab_width, indent) ==
  CASE g.c = SPC -> RFace(g.rface).space_width
    [] g.c = NL -> IF ctl.cursor_width # 0
                   THEN IF ctl.cursor_bidi THEN 3
                        ELSE IF ctl.cursor_width < 0
                        THEN RFace(g.rface).space_width
                        ELSE ctl.cursor_width
                   ELSE ctl.cursor_width
    [] g.c = TAB -> tab_width - ((indent + L.width) % tab_width)
    [] OTHER -> 1

\* the width of a Space glyph that follows a Pad glyph of width padw
AbsorbPad(w, padw) == IF w - padw < 1 THEN 2 ELSE w - padw

\* the branch of layout_glyph_string for a Space glyph
LayoutSpace(L, ctl, tab_width, indent) ==
  LET g == MGLYPH(L.glyphs, L.g)
      prev == MGLYPH(L.glyphs, L.g - 1)
      hasfont == RFace(g.rface).rfont
      Sized(w) ==
        [L EXCEPT
           !.glyphs = SetGlyph(@, L.g, [g EXCEPT !.width = w,
                                                 !.rbearing = w]),
           !.g = @ + 1,
           !.width = @ + w, !.rbearing = @ + w,
           !.tab_found = @ \/ g.c = TAB,
           !.ascent = IF hasfont THEN MAX(@, RFace(g.rface).ascent) ELSE @,
           !.descent = IF hasfont THEN MAX(@, RFace(g.rface).descent)
                       ELSE @]
      Padded(w0) ==
        Sized(IF prev.type = "PAD" THEN AbsorbPad(w0, prev.width) ELSE w0)
  IN Padded(SpaceWidth(g, L, ctl, tab_width, indent))

\* the main loop of layout_glyph_string
RECURSIVE LayoutLoop(_, _, _, _, _)
LayoutLoop(L0, ctl, fr, tab_width, indent) ==
  LET \* the branches of the loop body for the glyph at L.g
      Turn(L, g) ==
        IF g.type = "CHAR"
        THEN IF RFace(g.rface).rfont /\ g.code # MCHAR_INVALID_CODE
             THEN LayoutLoop(
                    LayoutRun(L, L.g,
                              RunOfChars(L.glyphs, L.g, L.g + 1, L.box, ctl),
                              ctl),
                    ctl, fr, tab_width, indent)
             ELSE LayoutLoop(
                    [LayoutNoFont(L, L.g,
                                  RunOfChars(L.glyphs, L.g, L.g + 1, L.box,
                                             ctl),
                                  g.rface)
                       EXCEPT
                         !.g = RunOfChars(L.glyphs, L.g, L.g + 1, L.box, ctl),
                         !.ascent = MAX(@, RFace(0).ascent),
                         !.descent = IF @ < fr.descent
                                     THEN RFace(0).descent ELSE @],
                    ctl, fr, tab_width, indent)
        ELSE IF g.type = "SPACE"
        THEN LayoutLoop(LayoutSpace(L, ctl, tab_width, indent), ctl, fr,
                        tab_width, indent)
        ELSE LayoutLoop([L EXCEPT !.g = @ + 1, !.width = @ + g.width,
                                  !.rbearing = @ + g.width],
                        ctl, fr, tab_width, indent)
      Typed(L) == Turn(L, MGLYPH(L.glyphs, L.g))
      \* a formatting character is laid out as a Space when the control
      \* asks to ignore it
      Formatted(L1) ==
        Typed(IF MGLYPH(L1.glyphs, L1.g).category = "Cf"
                 /\ ctl.ignore_formatting_char
              THEN [L1 EXCEPT !.glyphs =
                      SetGlyph(@, L1.g, [MGLYPH(L1.glyphs, L1.g)
                                           EXCEPT !.type = "SPACE"])]
              ELSE L1)
  IN IF MGLYPH(L0.glyphs, L0.g).type = "ANCHOR" THEN L0
     ELSE Formatted(BoxEdges(L0, ctl, fr))

\* the TAB re-sizing loop for the right-to-left orientation; R holds the
\* buffer, gstring->width, gstring->rbearing and the running width
RECURSIVE RtlTabLoop(_, _, _)
RtlTabLoop(R, g, tab_width) ==
  LET gg == MGLYPH(R.glyphs, g)
  IN IF gg.type = "ANCHOR" THEN R
     ELSE IF gg.type = "CHAR" /\ gg.c = TAB
     THEN LET w0 == tab_width - (R.w % tab_width)
              w1 == IF MGLYPH(R.glyphs, g + 1).type = "PAD"
                    THEN w0 - MGLYPH(R.glyphs, g + 1).width ELSE w0
              w2 == IF MGLYPH(R.glyphs, g - 1).type = "PAD"
                    THEN w1 - MGLYPH(R.glyphs, g - 1).width ELSE w1
              this_width == IF w2 < 2 THEN 2 ELSE w2
          IN RtlTabLoop(
               [glyphs |-> SetGlyph(R.glyphs, g,
                                    [gg EXCEPT !.width = this_width]),
                width |-> R.width + this_width - gg.width,
                rbearing |-> R.rbearing + this_width - gg.width,
                w |-> R.w + this_width], g - 1, tab_width)
     ELSE RtlTabLoop([R EXCEPT !.w = @ + gg.width], g - 1, tab_width)

\* a mutation of ClampLine: the ceiling is applied even when it is not
\* above the floor
ClampLine_AnyCeiling(line, min_line, max_line) ==
  IF line < min_line THEN min_line
  ELSE IF max_line # 0 /\ line > max_line
  THEN max_line
  ELSE line

\* the clamping of the line ascent (and descent) of layout_glyph_string
ClampLine(line, min_line, max_line) ==
  IF line < min_line THEN min_line
  ELSE IF max_line # 0 /\ max_line > min_line /\ line > max_line
  THEN max_line
  ELSE line

\* layout_glyph_string (frame, gstring)
layout_glyph_string(fr, gs) ==
  LET ctl == gs.control
      tab_width == fr.space_width
                   * (IF ctl.tab_width # 0 THEN ctl.tab_width ELSE 8)
      \* the line metrics; R holds the buffer and the width of the line
      Measured(L, R) ==
        LET text_ascent == MAX(L.ascent, L.physical_ascent)
            text_descent == MAX(L.descent, L.physical_descent)
            boxed == L.box_line_height > 0
            line_ascent0 == IF boxed THEN text_ascent + L.box_line_height
                            ELSE text_ascent
            line_descent0 == IF boxed THEN text_descent + L.box_line_height
                             ELSE text_descent
            line_ascent == ClampLine(line_ascent0, ctl.min_line_ascent,
                                     ctl.max_line_ascent)
            line_descent == ClampLine(line_descent0, ctl.min_line_descent,
                                      ctl.max_line_descent)
        IN [gs EXCEPT
              !.glyphs = R.glyphs, !.width = R.width,
              !.rbearing = R.rbearing,
              !.lbearing = L.lbearing, !.ascent = L.ascent,
              !.descent = L.descent,
              !.physical_ascent = IF boxed THEN line_ascent0
                                  ELSE L.physical_ascent,
              !.physical_descent = IF boxed THEN line_descent0
                                   ELSE L.physical_descent,
              !.sub_width = L.sub_width, !.sub_lbearing = L.sub_lbearing,
              !.sub_rbearing = L.sub_rbearing,
              !.text_ascent = text_ascent, !.text_descent = text_descent,
              !.line_ascent = line_ascent, !.line_descent = line_descent,
              !.height = line_ascent + line_descent]
      \* the TAB re-sizing for the right-to-left orientation
      Retabbed(L, R) ==
        Measured(L, IF ctl.orientation_reversed /\ L.tab_found
                    THEN RtlTabLoop(R, Len(R.glyphs) - 2, tab_width)
                    ELSE R)
      \* the right edge of a box that is still open at the end
      LastBox(L, bg) ==
        Retabbed(L, [glyphs |-> INSERT_GLYPH(L.glyphs, L.g, bg),
                     width |-> L.width + bg.width,
                     rbearing |-> L.rbearing + bg.width, w |-> gs.indent])
      Laid(L) ==
        IF L.box # 0
        THEN LastBox(L, BoxGlyph(MGLYPH(L.glyphs, L.g - 1), ctl, fr, L.box,
                                 FALSE))
        ELSE Retabbed(L, [glyphs |-> L.glyphs, width |-> L.width,
                          rbearing |-> L.rbearing, w |-> gs.indent])
  IN Laid(LayoutLoop([glyphs |-> gs.glyphs, g |-> 1, box |-> 0,
                      box_line_height |-> 0, tab_found |-> FALSE,
                      width |-> 0, lbearing |-> 0, rbearing |-> 0,
                      ascent |-> 0, descent |-> 0,
                      physical_ascent |-> 0, physical_descent |-> 0,
                      sub_width |-> gs.sub_width,
                      sub_lbearing |-> gs.sub_lbearing,
                      sub_rbearing |-> gs.sub_rbearing],
                     ctl, fr, tab_width, gs.indent))

(* --------------------------- glyph strings ---------------------------- *)
\* the format callback of alloc_gstring is absent: indent 0 and
\* width_limit = control->max_line_width
alloc_gstring(fr, ctl) ==
  [frame |-> fr.id, tick |-> fr.tick, control |-> ctl, indent |-> 0,
   width_limit |-> ctl.max_line_width,
   from |-> 0, to |-> 0, glyphs |-> <<>>,
   width |-> 0, lbearing |-> 0, rbearing |-> 0, ascent |-> 0,
   descent |-> 0, physical_ascent |-> 0, physical_descent |-> 0,
   text_ascent |-> 0, text_descent |-> 0, line_ascent |-> 0,
   line_descent |-> 0, height |-> 0, sub_width |-> 0, sub_lbearing |-> 0,
   sub_rbearing |-> 0]

\* a glyph string after compose_glyph_string has filled it
Composed(gs, text, fp, from, to) ==
  LET Filled(c) == [gs EXCEPT !.from = c.from, !.to = c.to,
                              !.glyphs = c.glyphs]
  IN Filled(compose_glyph_string(text, fp, from, to, gs.control))

(* ------------------------------ controls ------------------------------ *)
\* control_noop: the all-zero MDrawControl.  The members up to line_break
\* precede with_cursor in the structure.
control_noop ==
  [align_head |-> FALSE, two_dimensional |-> FALSE,
   orientation_reversed |-> FALSE, enable_bidi |-> FALSE,
   ignore_formatting_char |-> FALSE, fixed_width |-> FALSE,
   min_line_ascent |-> 0, min_line_descent |-> 0,
   max_line_ascent |-> 0, max_line_descent |-> 0,
   max_line_width |-> 0, tab_width |-> 0, line_break |-> "null",
   with_cursor |-> FALSE, cursor_pos |-> 0, cursor_width |-> 0,
   cursor_bidi |-> FALSE, disable_caching |-> FALSE]

\* the frame: its tick, frame->space_width and frame->descent
Frame0 == [id |-> 1, tick |-> 0, space_width |-> 5, descent |-> 2]

\* the frames and the tick of each when nothing has changed their faces
FrameIds == {1, 2}
Ticks0 == [f \in FrameIds |-> 0]

\* all texts of at most n characters over the alphabet
RECURSIVE TextsUpTo(_, _)
TextsUpTo(alphabet, n) ==
  IF n = 0 THEN {<<>>}
  ELSE LET shorter == TextsUpTo(alphabet, n - 1)
       IN shorter \cup {Append(t, c) : t \in shorter, c \in alphabet}

\* no face property, or one boxed / font-less face over [from, to)
FaceProps(text) ==
  {[from |-> 0, to |-> 0, face |-> 0]}
  \cup {[from |-> a, to |-> b, face |-> f] :
          a \in 0..Len(text), b \in 0..Len(text), f \in {1, 2}}

LayoutChars == {ChA, ChJ, SPC, TAB, NL, ACUTE, LRM}

LayoutControls ==
  {control_noop,
   [control_noop EXCEPT !.align_head = TRUE],
   [control_noop EXCEPT !.ignore_formatting_char = TRUE],
   [control_noop EXCEPT !.fixed_width = TRUE],
   [control_noop EXCEPT !.tab_width = 1],
   [control_noop EXCEPT !.orientation_reversed = TRUE],
   [control_noop EXCEPT !.two_dimensional = TRUE]}
  \cup {[control_noop EXCEPT !.with_cursor = TRUE, !.cursor_width = w,
                             !.cursor_bidi = b, !.two_dimensional = TRUE] :
          w \in {-1, 2}, b \in BOOLEAN}
  \cup {[control_noop EXCEPT !.with_cursor = TRUE, !.cursor_width = 2]}
  \cup {[control_noop EXCEPT !.min_line_ascent = a, !.min_line_descent = a,
                             !.max_line_ascent = b, !.max_line_descent = b] :
          a \in {0, 10}, b \in {0, 5, 20}}

(* ------------------------- compose and layout ------------------------- *)
\* compose_glyph_string on a fresh glyph string for [rfrom, rto)
Compose ==
  /\ pc = "start"
  /\ \E c \in {compose_glyph_string(mt, faceprop, rfrom, rto, control)} :
        IF c.diverged
        THEN /\ pc' = "hung"
             /\ UNCHANGED <<gstring, logical,
                 calls, args, obj, core, plist>>
        ELSE /\ pc' = "composed"
             /\ gstring' = [alloc_gstring(frame, control) EXCEPT
                              !.from = c.from, !.to = c.to,
                              !.glyphs = c.glyphs]
             /\ logical' = c.logical
  /\ UNCHANGED <<mt, faceprop, control, frame, ticks, rfrom, rpos, rto,
                 props, result,
                 calls, args, obj, core, plist>>

\* layout_glyph_string on the composed glyph string
Layout ==
  /\ pc = "composed"
  /\ gstring' = layout_glyph_string(frame, gstring)
  /\ pc' = "laid"
  /\ UNCHANGED <<mt, faceprop, control, frame, ticks, rfrom, rpos, rto,
                 logical, props, result,
                 calls, args, obj, core, plist>>

NoGstring == alloc_gstring(Frame0, control_noop)

InitLayout ==
  /\ mt \in TextsUpTo(LayoutChars, MaxLen)
  /\ faceprop \in {p \in FaceProps(mt) : p.from < p.to \/ p.face = 0}
  /\ control \in LayoutControls
  /\ frame = Frame0
  /\ ticks = Ticks0
  /\ rfrom = 0
  /\ rpos = 0
  /\ rto \in {Len(mt)} \cup (IF control.cursor_width # 0 THEN {Len(mt) + 1}
                             ELSE {})
  /\ gstring = NoGstring
  /\ logical = <<>>
  /\ pc = "start"
  /\ props = <<>>
  /\ result = 0
  /\ calls = 0
  /\ args = 0
  /\ obj = 0
  /\ core = 0
  /\ plist = <<>>

NextLayout == Compose \/ Layout

SpecLayout == InitLayout /\ [][NextLayout]_vars

\* the sum of the widths of the glyphs of a buffer
RECURSIVE SumWidth(_, _)
SumWidth(glyphs, n) ==
  IF n = 0 THEN 0 ELSE glyphs[n].width + SumWidth(glyphs, n - 1)

\* C1: after layout_glyph_string the widths of all glyphs of the buffer
\* add up to gstring.width
C1_WidthIsSum ==
  pc = "laid" => SumWidth(gstring.glyphs, Len(gstring.glyphs)) = gstring.width

\* C2: after layout_glyph_string the line ascent (descent) is at least the
\* larger of the ascent (descent) and the physical ascent (descent)
C2_LineCoversText ==
  pc = "laid" =>
    /\ gstring.line_ascent >= MAX(gstring.ascent, gstring.physical_ascent)
    /\ gstring.line_descent >= MAX(gstring.descent, gstring.physical_descent)

\* the ceiling max_line of the control is in force for a line of extent m
Ceiling(m, min_line, max_line) ==
  max_line # 0 /\ max_line > min_line /\ m > max_line

\* C2 (amended): the line ascent (descent) is at least the larger of the
\* ascent and the physical ascent, unless the control's ceiling is non-zero,
\* greater than the floor and smaller than that extent; then it equals the
\* ceiling
C2_LineCoversTextUnlessCeiling ==
  pc = "laid" =>
    LET ma == MAX(gstring.ascent, gstring.physical_ascent)
        md == MAX(gstring.descent, gstring.physical_descent)
        ctl == gstring.control
    IN /\ IF Ceiling(ma, ctl.min_line_ascent, ctl.max_line_ascent)
          THEN gstring.line_ascent = ctl.max_line_ascent
          ELSE gstring.line_ascent >= ma
       /\ IF Ceiling(md, ctl.min_line_descent, ctl.max_line_descent)
          THEN gstring.line_descent = ctl.max_line_descent
          ELSE gstring.line_descent >= md

\* a laid-out line under a ceiling that is in force, and one under a floor
C2_Witness ==
  /\ pc = "laid"
  /\ Ceiling(MAX(gstring.ascent, gstring.physical_ascent),
             control.min_line_ascent, control.max_line_ascent)
  /\ gstring.line_ascent = 5
  /\ Len(mt) > 0

\* the non-anchor glyphs of a glyph string lie inside its range
GlyphsInRange(gs) ==
  \A i \in 2..(Len(gs.glyphs) - 1) :
    /\ gs.glyphs[i].pos < gs.glyphs[i].to
    /\ gs.from <= gs.glyphs[i].pos
    /\ gs.glyphs[i].to <= gs.to

C6_TabWidth ==
  (pc = "laid" /\ ~gstring.control.orientation_reversed) =>
    LET tab_width == frame.space_width
                     * (IF gstring.control.tab_width # 0
                        THEN gstring.control.tab_width ELSE 8)
    IN \A i \in 2..(Len(gstring.glyphs) - 1) :
         (gstring.glyphs[i].type = "SPACE" /\ gstring.glyphs[i].c = TAB) =>
            gstring.glyphs[i].width
              = tab_width - ((gstring.indent
                              + SumWidth(gstring.glyphs, i - 1)) % tab_width)

\* C7: without align_head no left-padding Pad glyph stands in front of the
\* run that begins at the first glyph of the line
C7_NoPadAtHead ==
  (pc = "laid" /\ ~gstring.control.align_head) =>
    MGLYPH(gstring.glyphs, 1).type # "PAD"

(* ------------------------- bidi specification ------------------------- *)
BidiChars == {ChA, ALEF, ARALEF, ACUTE}

BidiControls ==
  {[control_noop EXCEPT !.enable_bidi = e, !.orientation_reversed = r] :
     e \in BOOLEAN, r \in BOOLEAN}

InitBidi ==
  /\ mt \in TextsUpTo(BidiChars, MaxBidiLen)
  /\ faceprop = [from |-> 0, to |-> 0, face |-> 0]
  /\ control \in BidiControls
  /\ frame = Frame0
  /\ ticks = Ticks0
  /\ rfrom = 0
  /\ rpos = 0
  /\ rto = Len(mt)
  /\ gstring = NoGstring
  /\ logical = <<>>
  /\ pc = "start"
  /\ props = <<>>
  /\ result = 0
  /\ calls = 0
  /\ args = 0
  /\ obj = 0
  /\ core = 0
  /\ plist = <<>>

NextBidi == Compose

SpecBidi == InitBidi /\ [][NextBidi]_vars

\* a glyph without its bidi level
Strip(g) == [g EXCEPT !.bidi_level = 0]

\* the glyph indices (0-based) at which the clusters of a buffer start: a
\* glyph that is not an anchor and either is first or has no combining code
ClusterHeads(glyphs) ==
  {k \in 1..(Len(glyphs) - 2) :
     k = 1 \/ MGLYPH(glyphs, k).combining_code = 0}

\* the number of glyphs of the cluster whose head is at k
ClusterSize(glyphs, k) ==
  LET later == {h \in ClusterHeads(glyphs) : h > k}
  IN (IF later = {} THEN Len(glyphs) - 1
      ELSE CHOOSE h \in later : \A h2 \in later : h <= h2) - k

RtlHead(glyphs, k) ==
  CharBidiCategory(MGLYPH(glyphs, k).c) \in {"R", "AL", "RLE", "RLO"}

\* the heads of the maximal run of right-to-left clusters around head k
RtlRun(glyphs, k) ==
  {h \in ClusterHeads(glyphs) :
     \A m \in ClusterHeads(glyphs) :
       (MIN(h, k) <= m /\ m <= MAX(h, k)) => RtlHead(glyphs, m)}

\* the glyph index at which the cluster with logical head k starts in the
\* visual buffer: a right-to-left run is mirrored inside its own span
VisualStart(glyphs, k) ==
  IF ~RtlHead(glyphs, k) THEN k
  ELSE LET run == RtlRun(glyphs, k)
           first == CHOOSE h \in run : \A h2 \in run : h <= h2
           after == {h \in run : h > k}
       IN first + Cardinality({g \in 1..(Len(glyphs) - 2) :
                                 \E h \in after :
                                   h <= g /\ g < h + ClusterSize(glyphs, h)})

\* C5: with enable_bidi and a left-to-right base direction every maximal
\* run of right-to-left clusters is reversed in place with level 1 and every
\* other cluster stays where it is with level 0; without enable_bidi the
\* buffer is unchanged and all levels are 0
C5_RunsReversed ==
  (pc = "composed" /\ ~control.orientation_reversed) =>
    IF control.enable_bidi
    THEN /\ Len(gstring.glyphs) = Len(logical)
         /\ \A k \in ClusterHeads(logical) :
              \A d \in 0..(ClusterSize(logical, k) - 1) :
                MGLYPH(gstring.glyphs, VisualStart(logical, k) + d)
                  = [MGLYPH(logical, k + d) EXCEPT
                       !.bidi_level = IF RtlHead(logical, k) THEN 1 ELSE 0]
    ELSE /\ gstring.glyphs = logical
         /\ \A i \in 1..Len(logical) : logical[i].bidi_level = 0

\* a composed line in which a run of two right-to-left clusters was
\* reversed
C5_Witness ==
  /\ pc = "composed"
  /\ control.enable_bidi /\ ~control.orientation_reversed
  /\ \E i \in 2..(Len(logical) - 1) :
       /\ logical[i].c = ALEF /\ logical[i + 1].c = ARALEF
       /\ gstring.glyphs[i].c = ARALEF /\ gstring.glyphs[i + 1].c = ALEF
       /\ gstring.glyphs[i].bidi_level = 1

(* ---------------------------- line breaker ---------------------------- *)
IsBlank(c) == c = SPC \/ c = TAB

\* the forward loop of mdraw_default_line_break
RECURSIVE SkipBlanks(_, _, _)
SkipBlanks(text, pos, to) ==
  IF pos < to /\ IsBlank(mtext_ref_char(text, pos))
  THEN SkipBlanks(text, pos + 1, to) ELSE pos

\* the backward loop of mdraw_default_line_break
RECURSIVE WalkBack(_, _, _)
WalkBack(text, pos, from) ==
  IF pos > from /\ ~IsBlank(mtext_ref_char(text, pos))
  THEN WalkBack(text, pos - 1, from) ELSE pos

\* mdraw_default_line_break (mt, pos, from, to, line, y)
mdraw_default_line_break(text, pos, from, to) ==
  IF IsBlank(mtext_ref_char(text, pos))
  THEN SkipBlanks(text, pos + 1, to)
  ELSE LET p == WalkBack(text, pos, from)
       IN IF p = from THEN pos ELSE p + 1

BreakChars == {ChA, SPC, TAB}

InitBreak ==
  /\ mt \in TextsUpTo(BreakChars, MaxBreakLen)
  /\ faceprop = [from |-> 0, to |-> 0, face |-> 0]
  /\ control = control_noop
  /\ frame = Frame0
  /\ ticks = Ticks0
  /\ rto \in 1..Len(mt)
  /\ rfrom \in 0..(rto - 1)
  /\ rpos \in rfrom..(rto - 1)
  /\ gstring = NoGstring
  /\ logical = <<>>
  /\ pc = "start"
  /\ props = <<>>
  /\ result = 0
  /\ calls = 0
  /\ args = 0
  /\ obj = 0
  /\ core = 0
  /\ plist = <<>>

\* a call of mdraw_default_line_break (mt, rpos, rfrom, rto, 0, 0)
DefaultLineBreak ==
  /\ pc = "start"
  /\ result' = mdraw_default_line_break(mt, rpos, rfrom, rto)
  /\ pc' = "broken"
  /\ UNCHANGED <<mt, faceprop, control, frame, ticks, rfrom, rpos, rto,
                 gstring, logical, props,
                 calls, args, obj, core, plist>>

NextBreak == DefaultLineBreak

SpecBreak == InitBreak /\ [][NextBreak]_vars

\* C9: mdraw_default_line_break answers, when the character at pos is a
\* space or a tab, the first position after pos that is not one of them or
\* is to; else q + 1 for the largest q in [from, pos) holding a space or a
\* tab; else pos.  The answer is in [from, to], and above from when pos is
\* above from
C9_DefaultBreak ==
  pc = "broken" =>
    LET blanks == {q \in rfrom..(rpos - 1) : mt[q + 1] \in {SPC, TAB}}
        stops == {p \in (rpos + 1)..rto :
                    p = rto \/ mt[p + 1] \notin {SPC, TAB}}
        expected ==
          IF mt[rpos + 1] \in {SPC, TAB}
          THEN CHOOSE p \in stops : \A p2 \in stops : p <= p2
          ELSE IF blanks # {}
          THEN (CHOOSE q \in blanks : \A q2 \in blanks : q2 <= q) + 1
          ELSE rpos
    IN /\ result = expected
       /\ rfrom <= result /\ result <= rto
       /\ rpos > rfrom => result > rfrom

(* ----------------------------- truncation ----------------------------- *)
\* pos_width[p - from] of truncate_gstring: the width of the glyphs of the
\* character at p
RECURSIVE PosWidth(_, _, _)
PosWidth(glyphs, g, p) ==
  IF MGLYPH(glyphs, g).type = "ANCHOR" THEN 0
  ELSE (IF MGLYPH(glyphs, g).pos = p THEN MGLYPH(glyphs, g).width ELSE 0)
       + PosWidth(glyphs, g + 1, p)

\* the second loop of truncate_gstring: the index i at which it stops
RECURSIVE OverflowLoop(_, _, _)
OverflowLoop(gs, i, width) ==
  IF i < gs.to - gs.from
  THEN LET pw == PosWidth(gs.glyphs, 1, gs.from + i)
       IN IF pw > 0 /\ width + pw > gs.width_limit THEN i
          ELSE OverflowLoop(gs, i + 1, width + pw)
  ELSE i

\* (*gstring->control.line_break) (mt, pos, from, to, 0, 0): the default
\* breaker, or an application's breaker that answers the start (the end) of
\* the line
LineBreak(ctl, text, pos, from, to) ==
  CASE ctl.line_break = "default" ->
         mdraw_default_line_break(text, pos, from, to)
    [] ctl.line_break = "from" -> from
    [] OTHER -> to

\* a mutation of BreakAccepted: the ends of the range are accepted
BreakAccepted_Closed(pos, from, to) == ~(pos < from \/ pos > to)

\* the test of truncate_gstring on the answer of the breaker
BreakAccepted(pos, from, to) == ~(pos <= from \/ pos >= to)

\* truncate_gstring (frame, mt, gstring)
truncate_gstring(fr, text, fp, gs) ==
  LET i == OverflowLoop(gs, 0, 0)
      pos == IF gs.control.line_break # "null"
             THEN LineBreak(gs.control, text, gs.from + i, gs.from, gs.to)
             ELSE gs.from + i
  IN IF gs.control.line_break # "null" /\ ~BreakAccepted(pos, gs.from, gs.to)
     THEN gs
     ELSE layout_glyph_string(fr, Composed(gs, text, fp, gs.from, pos))

\* the test of get_gstring for truncating a line
TooWide(gs) ==
  gs.control.two_dimensional /\ gs.width_limit # 0
  /\ gs.width > gs.width_limit

TruncChars == {ChA, SPC, NL}

TruncControls ==
  {[control_noop EXCEPT !.two_dimensional = TRUE, !.max_line_width = w,
                        !.line_break = b] :
     w \in {8, 20}, b \in {"null", "default", "from", "to"}}

InitTruncate ==
  /\ mt \in TextsUpTo(TruncChars, MaxTruncLen)
  /\ faceprop = [from |-> 0, to |-> 0, face |-> 0]
  /\ control \in TruncControls
  /\ frame = Frame0
  /\ ticks = Ticks0
  /\ rfrom = 0
  /\ rpos = 0
  /\ rto = Len(mt)
  /\ gstring = NoGstring
  /\ logical = <<>>
  /\ pc = "start"
  /\ props = <<>>
  /\ result = 0
  /\ calls = 0
  /\ args = 0
  /\ obj = 0
  /\ core = 0
  /\ plist = <<>>

\* truncate_gstring on a laid-out line that is wider than its limit; the
\* line as it was is kept in result
Truncate ==
  /\ pc = "laid"
  /\ TooWide(gstring)
  /\ gstring' = truncate_gstring(frame, mt, faceprop, gstring)
  /\ result' = gstring
  /\ pc' = "truncated"
  /\ UNCHANGED <<mt, faceprop, control, frame, ticks, rfrom, rpos, rto,
                 logical, props,
                 calls, args, obj, core, plist>>

NextTruncate == Compose \/ Layout \/ Truncate

SpecTruncate == InitTruncate /\ [][NextTruncate]_vars

\* the greedy overflow position of a laid-out line: the first character
\* with glyphs of positive width at which the widths so far exceed the
\* limit, or the end of the line
WidthUpTo(gs, p) ==
  SumWidth([n \in 1..(Len(gs.glyphs) - 2) |->
              IF gs.glyphs[n + 1].pos <= p
              THEN [width |-> gs.glyphs[n + 1].width]
              ELSE [width |-> 0]],
           Len(gs.glyphs) - 2)

Overflow(gs) ==
  LET over == {p \in gs.from..(gs.to - 1) :
                 /\ WidthUpTo(gs, p) > gs.width_limit
                 /\ \E n \in 2..(Len(gs.glyphs) - 1) :
                      gs.glyphs[n].pos = p /\ gs.glyphs[n].width > 0}
  IN IF over = {} THEN gs.to
     ELSE CHOOSE p \in over : \A p2 \in over : p <= p2

\* C8: a line truncated without control.line_break ends where the default
\* policy puts the break for the overflow position: after the nearest
\* preceding blank, or at the overflow position when there is none
C8_DefaultPolicy ==
  (pc = "truncated" /\ control.line_break = "null") =>
    gstring.to = mdraw_default_line_break(mt, Overflow(result), result.from,
                                          result.to)

\* C8 (amended): a line truncated without control.line_break ends at the
\* overflow position itself; with control.line_break the line ends at the
\* breaker's answer when that lies strictly inside (from, to) and is left
\* as it was otherwise
C8_BreakAtOverflow ==
  pc = "truncated" =>
    IF control.line_break = "null"
    THEN gstring.from = result.from /\ gstring.to = Overflow(result)
    ELSE LET p == CASE control.line_break = "default" ->
                        mdraw_default_line_break(mt, Overflow(result),
                                                 result.from, result.to)
                     [] control.line_break = "from" -> result.from
                     [] OTHER -> result.to
         IN IF result.from < p /\ p < result.to
            THEN gstring.from = result.from /\ gstring.to = p
            ELSE gstring = result

\* a line truncated without control.line_break at an overflow position
\* inside the line, where the default breaker would have gone back to a
\* blank
C8_Witness ==
  /\ pc = "truncated"
  /\ control.line_break = "null"
  /\ gstring.to = Overflow(result)
  /\ result.from < gstring.to /\ gstring.to < result.to
  /\ mdraw_default_line_break(mt, Overflow(result), result.from, result.to)
       < gstring.to

(* ------------------------- glyph-string cache ------------------------- *)
\* the members of MDrawControl that precede with_cursor: the part that the
\* memcmp of get_gstring compares
ControlPrefix(ctl) ==
  [align_head |-> ctl.align_head, two_dimensional |-> ctl.two_dimensional,
   orientation_reversed |-> ctl.orientation_reversed,
   enable_bidi |-> ctl.enable_bidi,
   ignore_formatting_char |-> ctl.ignore_formatting_char,
   fixed_width |-> ctl.fixed_width,
   min_line_ascent |-> ctl.min_line_ascent,
   min_line_descent |-> ctl.min_line_descent,
   max_line_ascent |-> ctl.max_line_ascent,
   max_line_descent |-> ctl.max_line_descent,
   max_line_width |-> ctl.max_line_width, tab_width |-> ctl.tab_width,
   line_break |-> ctl.line_break]

\* mtext_get_property (mt, pos, M_glyph_string): the index in ps of the
\* property attached last among those that cover pos, or 0
mtext_get_property(ps, pos) ==
  LET at == {n \in 1..Len(ps) : ps[n].start <= pos /\ pos < ps[n].end}
  IN IF at = {} THEN 0 ELSE CHOOSE n \in at : \A n2 \in at : n2 <= n

\* mtext_detach_property (prop)
mtext_detach_property(ps, idx) ==
  [n \in 1..(Len(ps) - 1) |-> IF n < idx THEN ps[n] ELSE ps[n + 1]]

\* mtext_attach_property (mt, beg, end, prop): nothing for an empty range
mtext_attach_property(ps, beg, end, val) ==
  IF beg >= end THEN ps
  ELSE [n \in 1..(Len(ps) + 1) |->
          IF n <= Len(ps) THEN ps[n]
          ELSE [start |-> beg, end |-> end, val |-> val]]

\* the first test of get_gstring on a property found at pos: its span no
\* longer starts and ends at line boundaries
StaleBoundary(text, prop) ==
  \/ (prop.start # 0 /\ mtext_ref_char(text, prop.start - 1) # NL)
  \/ (prop.end < mtext_nchars(text)
      /\ mtext_ref_char(text, prop.end - 1) # NL)

\* a mutation of KeyDiffers: the tick is not compared
KeyDiffers_NoTick(top, fr, ctl) ==
  \/ top.frame # fr.id
  \/ ControlPrefix(ctl) # ControlPrefix(top.control)

\* the second test of get_gstring on a property found at pos
KeyDiffers(top, fr, ctl) ==
  \/ top.frame # fr.id
  \/ top.tick # fr.tick
  \/ ControlPrefix(ctl) # ControlPrefix(top.control)

\* the start of the line of pos: mtext_character (mt, pos, 0, '\n') + 1,
\* or 0
LineStart(text, pos) ==
  LET nl == mtext_character(text, pos)
  IN IF nl < 0 THEN 0 ELSE nl + 1

\* the shift of a cached chain by offset
ShiftChain(chain, offset) ==
  [k \in 1..Len(chain) |->
     [chain[k] EXCEPT
        !.from = @ + offset, !.to = @ + offset,
        !.glyphs = [i \in 1..Len(chain[k].glyphs) |->
                      [chain[k].glyphs[i] EXCEPT !.pos = @ + offset,
                                                 !.to = @ + offset]]]]

\* the loop of get_gstring that adds the following physical lines to a
\* chain whose first line was truncated.  The loop does not end when a line
\* is truncated to nothing: the next line starts where this one started.
RECURSIVE ChainLoop(_, _, _, _, _)
\* the body of the loop for the next line as laid out: it ends the chain
\* if it fits and is truncated if it does not
AddLine(chain, fr, text, fp, end, laid) ==
  IF laid.width <= laid.width_limit
  THEN [chain |-> APPEND_GLYPH(chain, laid), diverged |-> FALSE]
  ELSE ChainLoop(APPEND_GLYPH(chain, truncate_gstring(fr, text, fp, laid)),
                 fr, text, fp, end)

ChainLoop(chain, fr, text, fp, end) ==
  LET gst == chain[Len(chain)]
  IN IF ~(gst.to < end) THEN [chain |-> chain, diverged |-> FALSE]
     ELSE IF gst.to = gst.from
     THEN [chain |-> chain, diverged |-> TRUE]
     ELSE AddLine(chain, fr, text, fp, end,
                  layout_glyph_string(fr,
                    Composed(alloc_gstring(fr, gst.control), text, fp,
                             gst.to, end)))

\* the chain that starts with the line `first' as laid out: the line is
\* truncated and followed by the rest when it is too wide
ChainOf(fr, text, fp, first) ==
  IF TooWide(first)
  THEN ChainLoop(<<truncate_gstring(fr, text, fp, first)>>, fr, text, fp,
                 first.to)
  ELSE [chain |-> <<first>>, diverged |-> FALSE]

\* the building branch of get_gstring: the chain for the line of pos
BuildChain(fr, text, fp, pos, to, ctl) ==
  LET beg == IF ctl.two_dimensional THEN LineStart(text, pos) ELSE pos
      end0 == IF ctl.two_dimensional
              THEN mtext_nchars(text) + (IF ctl.cursor_width # 0 THEN 1 ELSE 0)
              ELSE to
      Built(built, end) ==
        [chain |-> built.chain, diverged |-> built.diverged, beg |-> beg,
         end |-> MIN(end, mtext_nchars(text))]
      Lines(first) == Built(ChainOf(fr, text, fp, first), first.to)
  IN IF compose_glyph_string(text, fp, beg, end0, ctl).diverged
     THEN [chain |-> <<>>, diverged |-> TRUE, beg |-> beg, end |-> end0]
     ELSE Lines(layout_glyph_string(fr,
                  Composed(alloc_gstring(fr, ctl), text, fp, beg, end0)))

\* the last loop of get_gstring: the index in the chain of the line that
\* ends after pos, or 0 when the chain has none (gstring->next is NULL and
\* is dereferenced)
LineOf(chain, pos) ==
  LET after == {k \in 1..Len(chain) : chain[k].to > pos /\
                  \A k2 \in 1..(k - 1) : chain[k2].to <= pos}
  IN IF after = {} THEN 0 ELSE CHOOSE k \in after : TRUE

\* get_gstring (frame, mt, pos, to, control)
get_gstring(fr, text, fp, ps, pos, to, ctl) ==
  LET looked == pos < mtext_nchars(text)
      cached == ~ctl.disable_caching /\ pos < mtext_nchars(text)
      \* the chain with the requested control stored in its line k
      Controlled(chain, k) ==
        [n \in 1..Len(chain) |->
           IF n = k THEN [chain[n] EXCEPT !.control = ctl] ELSE chain[n]]
      \* the cached chain is used
      HitLine(idx, info, chain2, k) ==
        [status |-> "ok",
         props |-> [n \in 1..Len(ps) |->
                      IF n = idx THEN [ps[n] EXCEPT !.val = chain2]
                      ELSE ps[n]],
         line |-> chain2[k], info |-> info]
      HitAt(idx, info, chain, k) ==
        IF k = 0
        THEN [status |-> "crash",
              props |-> [n \in 1..Len(ps) |->
                           IF n = idx THEN [ps[n] EXCEPT !.val = chain]
                           ELSE ps[n]],
              line |-> NoGstring, info |-> info]
        ELSE HitLine(idx, info, Controlled(chain, k), k)
      Hit(idx, info, chain) == HitAt(idx, info, chain, LineOf(chain, pos))
      \* a new chain b is built and attached
      BuiltLine(ps1, info, b, chain2, k) ==
        [status |-> "ok",
         props |-> IF cached
                   THEN mtext_attach_property(ps1, b.beg, b.end, chain2)
                   ELSE ps1,
         line |-> chain2[k], info |-> info]
      BuiltAt(ps1, info, b, k) ==
        IF b.diverged
        THEN [status |-> "hang", props |-> ps1, line |-> NoGstring,
              info |-> info]
        ELSE IF k = 0
        THEN [status |-> "crash",
              props |-> IF cached
                        THEN mtext_attach_property(ps1, b.beg, b.end, b.chain)
                        ELSE ps1,
              line |-> NoGstring, info |-> info]
        ELSE BuiltLine(ps1, info, b, Controlled(b.chain, k), k)
      Built(ps1, info, b) == BuiltAt(ps1, info, b, LineOf(b.chain, pos))
      \* idx is the property found at pos (0 for none), b the chain that is
      \* built when the property is not used
      Decided(idx, info, b) ==
        IF ~looked /\ ctl.cursor_width = 0
        THEN [status |-> "null", props |-> ps, line |-> NoGstring,
              info |-> info]
        ELSE IF info.hit
        THEN Hit(idx, info,
                 ShiftChain(ps[idx].val,
                            LineStart(text, pos) - ps[idx].val[1].from))
        ELSE Built(IF info.detached THEN mtext_detach_property(ps, idx)
                   ELSE ps,
                   info, b)
      Info(idx, stale, differs) ==
        [found |-> idx # 0, stale |-> stale, differs |-> differs,
         hit |-> idx # 0 /\ ~stale /\ ~differs,
         detached |-> stale \/ differs]
      Keyed(idx, stale, b) ==
        Decided(idx,
                Info(idx, stale,
                     idx # 0 /\ ~stale
                     /\ KeyDiffers(ps[idx].val[1], fr, ctl)),
                b)
      Found(idx, b) ==
        Keyed(idx, idx # 0 /\ StaleBoundary(text, ps[idx]), b)
  IN Found(IF looked THEN mtext_get_property(ps, pos) ELSE 0,
           BuildChain(fr, text, fp, pos, to, ctl))

CacheChars == {ChA, NL}

\* the controls of the requests: the second differs from the first only in
\* with_cursor and cursor_width
CacheControls ==
  {control_noop,
   [control_noop EXCEPT !.with_cursor = TRUE, !.cursor_width = 2],
   [control_noop EXCEPT !.two_dimensional = TRUE]}

InitCache ==
  /\ mt \in TextsUpTo(CacheChars, MaxCacheLen)
  /\ faceprop = [from |-> 0, to |-> 0, face |-> 0]
  /\ control = control_noop
  /\ frame = Frame0
  /\ ticks = Ticks0
  /\ rfrom = 0
  /\ rpos = 0
  /\ rto = 0
  /\ gstring = NoGstring
  /\ logical = <<>>
  /\ pc = "start"
  /\ props = <<>>
  /\ result = 0
  /\ calls = 0
  /\ args = 0
  /\ obj = 0
  /\ core = 0
  /\ plist = <<>>

\* a call get_gstring (frame f, mt, pos, nchars, ctl), as draw_text makes
\* it for a range that ends at the end of the text
GetGstring ==
  /\ pc \in {"start", "got", "null"}
  /\ calls < MaxCalls
  /\ \E f \in FrameIds, ctl \in CacheControls, pos \in 0..Len(mt) :
       \E r \in {get_gstring([Frame0 EXCEPT !.id = f, !.tick = ticks[f]],
                              mt, faceprop, props, pos, Len(mt), ctl)} :
             /\ frame' = [Frame0 EXCEPT !.id = f, !.tick = ticks[f]]
             /\ control' = ctl
             /\ rfrom' = pos
             /\ rto' = Len(mt)
             /\ props' = r.props
             /\ gstring' = r.line
             /\ result' = r.info
             /\ pc' = CASE r.status = "ok" -> "got"
                        [] r.status = "null" -> "null"
                        [] r.status = "crash" -> "crashed"
                        [] OTHER -> "hung"
  /\ calls' = calls + 1
  /\ UNCHANGED <<mt, faceprop, ticks, rpos, logical, args, obj, core, plist>>

\* a change of the fonts or faces of frame f between two calls advances its
\* tick
FontChange ==
  /\ pc \in {"got", "null"}
  /\ calls < MaxCalls
  /\ \E f \in FrameIds :
       /\ ticks[f] < calls
       /\ ticks' = [ticks EXCEPT ![f] = @ + 1]
  /\ UNCHANGED <<mt, faceprop, control, frame, rfrom, rpos, rto, gstring,
                 logical, pc, props, result, calls, args, obj, core, plist>>

NextCache == GetGstring \/ FontChange

SpecCache == InitCache /\ [][NextCache]_vars

\* the chain of a property was built for this frame, this tick and a
\* control equal in every member before with_cursor
KeyEqual(top, fr, ctl) ==
  /\ top.frame = fr.id
  /\ top.tick = fr.tick
  /\ \A m \in {"align_head", "two_dimensional", "orientation_reversed",
               "enable_bidi", "ignore_formatting_char", "fixed_width",
               "min_line_ascent", "min_line_descent", "max_line_ascent",
               "max_line_descent", "max_line_width", "tab_width",
               "line_break"} : top.control[m] = ctl[m]

\* the span of a property starts at the start of the text or after a
\* newline and ends at the end of the text or after a newline
LineBounded(text, prop) ==
  /\ prop.start = 0 \/ text[prop.start] = NL
  /\ prop.end >= Len(text) \/ text[prop.end] = NL

\* a step that is a call of get_gstring which finds a property at pos
FindsProperty ==
  /\ calls' = calls + 1
  /\ rfrom' < Len(mt)
  /\ mtext_get_property(props, rfrom') # 0

\* C10: a call of get_gstring that finds a chain at pos reuses it only if
\* the frame, the tick and the members of the control before with_cursor
\* are equal; in any other case it detaches the property and builds a new
\* chain; and it detaches nothing when they are equal
C10_CacheKey ==
  [][FindsProperty =>
       LET top == props[mtext_get_property(props, rfrom')].val[1]
           equal == KeyEqual(top, frame', control')
       IN /\ result'.hit => equal
          /\ ~equal => (result'.detached /\ ~result'.hit)
          /\ (result'.detached /\ pc' = "got")
               => (gstring'.frame = frame'.id /\ gstring'.tick = frame'.tick)
          /\ equal => ~result'.detached]_vars

\* C10 (amended): a call of get_gstring that finds a chain at pos reuses it
\* exactly if its span is bounded by line boundaries and the frame, the
\* tick and the members of the control before with_cursor are equal; in any
\* other case it detaches the property and builds a new chain
C10_CacheKeyOnLines ==
  [][FindsProperty =>
       LET prop == props[mtext_get_property(props, rfrom')]
           equal == KeyEqual(prop.val[1], frame', control')
                    /\ LineBounded(mt, prop)
       IN /\ result'.hit <=> equal
          /\ result'.detached <=> ~equal
          /\ (result'.detached /\ pc' = "got")
               => (gstring'.frame = frame'.id /\ gstring'.tick = frame'.tick)
          /\ result'.hit =>
               /\ Len(props') = Len(props)
               /\ \A n \in 1..Len(props) :
                    /\ props'[n].start = props[n].start
                    /\ props'[n].end = props[n].end
                    /\ Len(props'[n].val) = Len(props[n].val)]_vars

\* a second call with a cursor that reused the cached chain
C10_Witness ==
  /\ calls = 2
  /\ pc = "got"
  /\ result.found /\ result.hit /\ ~result.detached
  /\ control.with_cursor
  /\ Len(props) = 1

(* ------------------------ one chain per position ---------------------- *)
\* the cache properties attached over the character position p
CoveringProps(p) ==
  {n \in 1..Len(props) : props[n].start <= p /\ p < props[n].end}

MaxPosLen == 2     \* longest text of the hit-test specification

\* M_CHECK_POS_X (mt, pos, ret): the position is outside [0, nchars]
BadPosX(text, pos) == pos < 0 \/ pos > mtext_nchars(text)

\* the clipping of `to' at the head of the query functions
ClipTo(text, from, to, ctl) ==
  IF to > mtext_nchars(text) + (IF ctl.cursor_width # 0 THEN 1 ELSE 0)
  THEN mtext_nchars(text) + (IF ctl.cursor_width # 0 THEN 1 ELSE 0)
  ELSE IF to < from THEN from ELSE to

\* the loop of mdraw_coordinates_position over the physical lines; w holds
\* from, y, and for the record the top of the first line.  CoordLine is the
\* loop for the answer r of get_gstring.
RECURSIVE CoordLines(_, _, _, _, _, _, _, _)
CoordLine(fr, text, fp, to, y_offset, ctl, w, r) ==
  IF r.status # "ok"
  THEN [status |-> r.status, props |-> r.props, line |-> r.line,
        from |-> w.from, y |-> w.y, top |-> w.top]
  ELSE LET y == IF w.first THEN w.y ELSE w.y + r.line.line_ascent
           top == IF w.first THEN - r.line.line_ascent ELSE w.top
       IN IF y + r.line.line_descent <= y_offset /\ r.line.to < to
          THEN CoordLines(fr, text, fp, r.props, to, y_offset, ctl,
                          [from |-> r.line.to, y |-> y + r.line.line_descent,
                           top |-> top, first |-> FALSE])
          ELSE [status |-> "ok", props |-> r.props, line |-> r.line,
                from |-> w.from, y |-> y, top |-> top]

CoordLines(fr, text, fp, ps, to, y_offset, ctl, w) ==
  CoordLine(fr, text, fp, to, y_offset, ctl, w,
            get_gstring(fr, text, fp, ps, w.from, to, ctl))

\* the loop that accumulates the widths from the left: the index of the
\* glyph at which it stops
RECURSIVE WidthWalk(_, _, _, _, _, _)
WidthWalk(glyphs, g, width, from, to, x_offset) ==
  IF MGLYPH(glyphs, g + 1).type = "ANCHOR" THEN g
  ELSE IF MGLYPH(glyphs, g).pos >= from /\ MGLYPH(glyphs, g).pos < to
  THEN IF width + MGLYPH(glyphs, g).width > x_offset THEN g
       ELSE WidthWalk(glyphs, g + 1, width + MGLYPH(glyphs, g).width,
                      from, to, x_offset)
  ELSE WidthWalk(glyphs, g + 1, width, from, to, x_offset)

\* the loop that accumulates the widths from the right
RECURSIVE WidthWalkReversed(_, _, _, _, _, _)
WidthWalkReversed(glyphs, g, width, from, to, x_offset) ==
  IF MGLYPH(glyphs, g).type = "ANCHOR" THEN g
  ELSE IF MGLYPH(glyphs, g).pos >= from /\ MGLYPH(glyphs, g).pos < to
  THEN IF width - MGLYPH(glyphs, g).width < x_offset THEN g
       ELSE WidthWalkReversed(glyphs, g - 1,
                              width - MGLYPH(glyphs, g).width,
                              from, to, x_offset)
  ELSE WidthWalkReversed(glyphs, g - 1, width, from, to, x_offset)

\* mdraw_coordinates_position (frame, mt, from, to, x_offset, y_offset,
\* control).  The answer is pos; top and bottom are the y of the top of the
\* first line and of the bottom of the line the loop stopped at, and last
\* tells that this line ends the range.  A line without glyphs makes the
\* left-to-right loop read g[1] beyond the last anchor: status "undefined".
mdraw_coordinates_position(fr, text, fp, ps, from, to0, x_offset, y_offset, ctl) ==
  LET to == ClipTo(text, from, to0, ctl)
      Answer(l, pos, status) ==
        [status |-> status, pos |-> pos, props |-> l.props, line |-> l.line,
         top |-> l.top, bottom |-> l.y + l.line.line_descent,
         last |-> l.line.to >= to]
      Hit(l) ==
        IF l.status # "ok" THEN Answer(l, -1, l.status)
        ELSE IF ~ctl.orientation_reversed
        THEN IF Len(l.line.glyphs) < 3 THEN Answer(l, -1, "undefined")
             ELSE Answer(l,
                    MGLYPH(l.line.glyphs,
                           WidthWalk(l.line.glyphs, 1, l.line.indent,
                                     l.from, to, x_offset)).pos,
                    "ok")
        ELSE Answer(l,
               MGLYPH(l.line.glyphs,
                      WidthWalkReversed(l.line.glyphs,
                                        Len(l.line.glyphs) - 2,
                                        - l.line.indent, l.from, to,
                                        x_offset)).pos,
               "ok")
  IN IF BadPosX(text, from)
     THEN [status |-> "error", pos |-> -1, props |-> ps, line |-> NoGstring,
           top |-> 0, bottom |-> 0, last |-> FALSE]
     ELSE IF from = to
     THEN [status |-> "empty", pos |-> from, props |-> ps,
           line |-> NoGstring, top |-> 0, bottom |-> 0, last |-> FALSE]
     ELSE Hit(CoordLines(fr, text, fp, ps, to, y_offset, ctl,
                         [from |-> from, y |-> 0, top |-> 0,
                          first |-> TRUE]))

PositionChars == {ChA, NL}

\* one line, right to left, and lines broken at newlines and at a width
PositionControls ==
  {control_noop,
   [control_noop EXCEPT !.orientation_reversed = TRUE],
   [control_noop EXCEPT !.two_dimensional = TRUE],
   [control_noop EXCEPT !.two_dimensional = TRUE, !.max_line_width = 8]}

\* coordinates left of, inside and right of (above, inside, below) the text
PositionOffsets == {-40, 3, 40}

InitPosition ==
  /\ mt \in TextsUpTo(PositionChars, MaxPosLen)
  /\ faceprop = [from |-> 0, to |-> 0, face |-> 0]
  /\ control \in PositionControls
  /\ frame = Frame0
  /\ ticks = Ticks0
  /\ rfrom \in 0..Len(mt)
  /\ rpos = 0
  /\ rto \in 0..(Len(mt) + 1)
  /\ gstring = NoGstring
  /\ logical = <<>>
  /\ pc = "start"
  /\ props = <<>>
  /\ result = 0
  /\ calls = 0
  /\ args \in [x_offset : PositionOffsets, y_offset : PositionOffsets]
  /\ obj = 0
  /\ core = 0
  /\ plist = <<>>

\* a call mdraw_coordinates_position (frame, mt, rfrom, rto, x, y, control)
CoordinatesPosition ==
  /\ pc = "start"
  /\ \E r \in {mdraw_coordinates_position(frame, mt, faceprop, props, rfrom,
                                          rto, args.x_offset, args.y_offset,
                                          control)} :
       /\ result' = [pos |-> r.pos, top |-> r.top, bottom |-> r.bottom,
                     last |-> r.last]
       /\ props' = r.props
       /\ gstring' = r.line
       /\ pc' = CASE r.status = "ok" -> "found"
                  [] r.status = "empty" -> "empty"
                  [] r.status = "error" -> "error"
                  [] r.status = "crash" -> "crashed"
                  [] r.status = "undefined" -> "undefined"
                  [] OTHER -> "hung"
  /\ UNCHANGED <<mt, faceprop, control, frame, ticks, rfrom, rpos, rto,
                 logical, calls, args, obj, core, plist>>

NextPosition == CoordinatesPosition

SpecPosition == InitPosition /\ [][NextPosition]_vars

\* C12: mdraw_coordinates_position answers `from' for a y_offset above the
\* top of the first physical line and `to' for a y_offset below the bottom
\* of the last physical line, whatever x_offset is
C12_ClampsToRange ==
  pc = "found" =>
    /\ args.y_offset < result.top => result.pos = rfrom
    /\ (result.last /\ args.y_offset >= result.bottom)
         => result.pos = ClipTo(mt, rfrom, rto, control)

(* ------------------------------- drawing ------------------------------ *)
MaxDrawLen == 2    \* longest text of the drawing specification

\* the inner loops of draw_background over the glyphs of one run, from g
\* while the glyph is in [from, to) and of the face rface: s holds cursor
\* (the index of the first glyph over cpos, 0 for NULL), cursor_x,
\* cursor_width, width and x
RECURSIVE RunWalk(_, _, _, _, _, _, _)
RunWalk(glyphs, g, from, to, rface, cpos, s) ==
  LET gl == MGLYPH(glyphs, g)
  IN IF ~(gl.pos >= from /\ gl.pos < to /\ gl.rface = rface)
     THEN [s EXCEPT !.g = g]
     ELSE RunWalk(glyphs, g + 1, from, to, rface, cpos,
            IF gl.type # "BOX" /\ gl.pos <= cpos /\ gl.to > cpos
            THEN [s EXCEPT !.cursor = IF @ = 0 THEN g ELSE @,
                           !.cursor_x = IF s.cursor = 0 THEN s.x + s.width
                                        ELSE @,
                           !.cursor_width = @ + gl.width,
                           !.width = @ + gl.width]
            ELSE [s EXCEPT !.width = @ + gl.width])

\* the rectangles draw_background fills with the cursor flag for one run:
\* c is the walk for cursor_pos, p the walk for prev_pos
CursorRects(gs, y, c, p, prev_pos) ==
  LET ctl == gs.control
      top == y - gs.text_ascent
      height == gs.text_ascent + gs.text_descent
      Odd(i) == MGLYPH(gs.glyphs, i).bidi_level % 2 = 1
      Rect(rx, ry, w, h) == <<[x |-> rx, y |-> ry, width |-> w, height |-> h]>>
      bar == IF Odd(c.cursor) THEN c.cursor_x + c.cursor_width - 1
             ELSE c.cursor_x
      pbar == IF Odd(p.cursor) THEN p.cursor_x
              ELSE p.cursor_x + p.cursor_width - 1
      atCursor ==
        IF c.cursor = 0 THEN <<>>
        ELSE IF ~ctl.cursor_bidi
        THEN Rect(c.cursor_x, top,
                  IF ctl.cursor_width > 0 /\ ctl.cursor_width < c.cursor_width
                  THEN ctl.cursor_width ELSE c.cursor_width,
                  height)
        ELSE Concat(Rect(bar, top, 1, height),
                    Rect(IF Odd(c.cursor) THEN bar - 3 ELSE bar, top,
                         MIN(c.cursor_width, 4), 2))
      atPrev ==
        IF prev_pos < 0 \/ p.cursor = 0 THEN <<>>
        ELSE Concat(Rect(pbar, top, 1, height),
                    Rect(IF Odd(p.cursor) THEN pbar
                         ELSE pbar - (MIN(p.cursor_width, 4) - 1),
                         top + height - 2, MIN(p.cursor_width, 4), 2))
  IN Concat(atCursor, atPrev)

\* draw_background (frame, win, x, y, gstring, from, to, ..): the cursor
\* rectangles it fills, from the glyph g on
RECURSIVE draw_background(_, _, _, _, _, _, _)
draw_background(gs, g, x, y, from, to, rects) ==
  LET ctl == gs.control
      on == ctl.with_cursor /\ ctl.cursor_width # 0
      cursor_pos == IF on /\ gs.from <= ctl.cursor_pos
                       /\ gs.to > ctl.cursor_pos
                    THEN ctl.cursor_pos ELSE -1
      prev_pos == IF on /\ ctl.cursor_bidi /\ gs.from <= ctl.cursor_pos - 1
                     /\ gs.to > ctl.cursor_pos - 1
                  THEN ctl.cursor_pos - 1 ELSE -1
      gl == MGLYPH(gs.glyphs, g)
      s0 == [g |-> g, cursor |-> 0, cursor_x |-> 0, cursor_width |-> 0,
             width |-> 0, x |-> x]
      Run(c, p) ==
        draw_background(gs, c.g, x + c.width, y, from, to,
                        Concat(rects, CursorRects(gs, y, c, p, prev_pos)))
  IN IF gl.type = "ANCHOR" THEN rects
     ELSE IF gl.pos >= from /\ gl.pos < to
     THEN Run(RunWalk(gs.glyphs, g, from, to, gl.rface, cursor_pos, s0),
              RunWalk(gs.glyphs, g, from, to, gl.rface, prev_pos, s0))
     ELSE draw_background(gs, g + 1, x, y, from, to, rects)

\* gstring_width (gstring, from, to, NULL), its loop from the glyph g on
RECURSIVE gstring_width(_, _, _, _)
gstring_width(gs, g, from, to) ==
  IF from <= gs.from /\ to >= gs.to THEN gs.width
  ELSE IF MGLYPH(gs.glyphs, g).type = "ANCHOR" THEN 0
  ELSE (IF MGLYPH(gs.glyphs, g).pos >= from /\ MGLYPH(gs.glyphs, g).pos < to
        THEN MGLYPH(gs.glyphs, g).width ELSE 0)
       + gstring_width(gs, g + 1, from, to)

\* render_glyph_string (frame, win, x, y, gstring, from, to): the cursor
\* rectangles it fills
render_glyph_string(gs, x, y, from, to) ==
  draw_background(gs, 1,
                  IF gs.control.orientation_reversed
                  THEN x - (gs.indent + gstring_width(gs, 1, from, to))
                  ELSE x + gs.indent,
                  y, from, to, <<>>)

\* the lines of draw_text; w holds from, y, the rectangles filled so far
\* and the first line.  DrawLine is the step for the answer r of get_gstring.
RECURSIVE DrawLines(_, _, _, _, _, _, _, _)
DrawLine(fr, text, fp, to, ctl, x, w, r) ==
  LET first == w.lines = 0
      Stop(status) ==
        [status |-> status, props |-> r.props, rects |-> w.rects,
         line |-> IF first THEN r.line ELSE w.line, lines |-> w.lines]
      Drawn(y, line, rects) ==
        IF r.line.to < to
        THEN DrawLines(fr, text, fp, r.props, to, ctl, x,
                       [from |-> r.line.to, y |-> y + r.line.line_descent,
                        rects |-> rects, line |-> line,
                        lines |-> w.lines + 1])
        ELSE [status |-> "ok", props |-> r.props, rects |-> rects,
              line |-> line, lines |-> w.lines + 1]
      At(y) ==
        Drawn(y, IF first THEN r.line ELSE w.line,
              Concat(w.rects,
                     render_glyph_string(r.line, x, y, w.from, to)))
  IN IF r.status = "null" THEN Stop(IF first THEN "error" ELSE "crash")
     ELSE IF r.status # "ok" THEN Stop(r.status)
     ELSE At(IF first THEN w.y ELSE w.y + r.line.line_ascent)

DrawLines(fr, text, fp, ps, to, ctl, x, w) ==
  DrawLine(fr, text, fp, to, ctl, x, w,
           get_gstring(fr, text, fp, ps, w.from, to, ctl))

\* draw_text (frame, win, x, y, mt, from, to, control)
draw_text(fr, text, fp, ps, x, y, from, to, ctl) ==
  IF BadPosX(text, from)
  THEN [status |-> "error", props |-> ps, rects |-> <<>>,
        line |-> NoGstring, lines |-> 0]
  ELSE DrawLines(fr, text, fp, ps, ClipTo(text, from, to, ctl), ctl, x,
                 [from |-> from, y |-> y, rects |-> <<>>,
                  line |-> NoGstring, lines |-> 0])

DrawChars == {ChA, NL}

\* the controls of the drawing calls: a cursor of width 2 at cursor_pos, on
\* one line or on lines broken at newlines, with or without cursor_bidi
DrawControls ==
  {[control_noop EXCEPT !.with_cursor = TRUE, !.cursor_width = 2,
                        !.cursor_pos = p, !.two_dimensional = d,
                        !.cursor_bidi = b, !.orientation_reversed = o] :
     p \in 0..MaxDrawLen, d \in BOOLEAN, b \in BOOLEAN, o \in BOOLEAN}
  \cup {control_noop}

InitDraw ==
  /\ mt \in TextsUpTo(DrawChars, MaxDrawLen)
  /\ faceprop = [from |-> 0, to |-> 0, face |-> 0]
  /\ control \in {c \in DrawControls : c.cursor_pos <= Len(mt)}
  /\ frame = Frame0
  /\ ticks = Ticks0
  /\ rfrom \in 0..Len(mt)
  /\ rpos = 0
  /\ rto \in rfrom..(Len(mt) + 1)
  /\ gstring = NoGstring
  /\ logical = <<>>
  /\ pc = "start"
  /\ props = <<>>
  /\ result = 0
  /\ calls = 0
  /\ args = [x |-> 10, y |-> 20]
  /\ obj = 0
  /\ core = 0
  /\ plist = <<>>

\* a call mdraw_text_with_control (frame, win, x, y, mt, rfrom, rto, control)
DrawText ==
  /\ pc = "start"
  /\ \E r \in {draw_text(frame, mt, faceprop, props, args.x, args.y, rfrom,
                         rto, control)} :
       /\ result' = [rects |-> r.rects, lines |-> r.lines]
       /\ props' = r.props
       /\ gstring' = r.line
       /\ pc' = CASE r.status = "ok" -> "drawn"
                  [] r.status = "error" -> "error"
                  [] r.status = "crash" -> "crashed"
                  [] OTHER -> "hung"
  /\ UNCHANGED <<mt, faceprop, control, frame, ticks, rfrom, rpos, rto,
                 logical, calls, args, obj, core, plist>>

NextDraw == DrawText

SpecDraw == InitDraw /\ [][NextDraw]_vars

\* the call was for the empty range [from, from) with the cursor at from
EmptyRangeWithCursor ==
  /\ pc # "start"
  /\ rto = rfrom
  /\ control.with_cursor /\ control.cursor_width > 0
  /\ control.cursor_pos = rfrom

\* C13: drawing the empty range [from, from) with a cursor of positive
\* width at from completes normally, yields a glyph string of just the two
\* anchors and fills one cursor rectangle of the declared cursor width at
\* the given origin
C13_EmptyRangeCursor ==
  EmptyRangeWithCursor =>
    /\ pc = "drawn"
    /\ Len(gstring.glyphs) = 2
    /\ Len(result.rects) = 1
    /\ result.rects[1].width = control.cursor_width
    /\ result.rects[1].x = args.x

(* ------------------------- per-character extents ---------------------- *)
MaxExtLen == 3     \* longest text of the extents specification

\* M_CHECK_RANGE (mt, from, to, errret, ret): "error" for a range outside
\* the text, "empty" for an empty one
CheckRange(text, from, to) ==
  IF from < 0 \/ to < from \/ to > mtext_nchars(text) THEN "error"
  ELSE IF from = to THEN "empty" ELSE "ok"

\* the loop of mdraw_text_per_char_extents over the glyphs, from the glyph g
\* on: set holds the indices of the array elements stored so far.  The loop
\* has no step for a glyph outside [from, to).
RECURSIVE ExtentsLoop(_, _, _, _, _, _)
ExtentsLoop(glyphs, g, from, to, x, set) ==
  LET gl == MGLYPH(glyphs, g)
      Rest(h) == {k \in h..(Len(glyphs) - 1) :
                    MGLYPH(glyphs, k).type = "ANCHOR"
                    \/ MGLYPH(glyphs, k).pos # gl.pos}
      next == CHOOSE h \in Rest(g + 1) : \A k \in Rest(g + 1) : h <= k
      width == SumWidth(glyphs, next) - SumWidth(glyphs, g)
  IN IF gl.type = "ANCHOR" THEN [status |-> "ok", set |-> set, x |-> x]
     ELSE IF ~(gl.pos >= from /\ gl.pos < to)
     THEN [status |-> "hang", set |-> set, x |-> x]
     ELSE IF ~RFace(gl.rface).rfont
     THEN [status |-> "crash", set |-> set, x |-> x]
     ELSE ExtentsLoop(glyphs, next, from, to, x + width,
                      set \cup {start - from :
                                  start \in gl.pos..(MIN(gl.to, to) - 1)})

\* mdraw_text_per_char_extents (frame, mt, from, to, control, ink_array,
\* logical_array, array_size, &num_chars, NULL, NULL): ret is the value
\* returned, num the value stored in *num_chars_return
mdraw_text_per_char_extents(fr, text, fp, ps, from, to, ctl, array_size) ==
  LET Out(status, ret, num, set, r) ==
        [status |-> status, ret |-> ret, num |-> num, set |-> set,
         props |-> r.props, line |-> r.line]
      none == [props |-> ps, line |-> NoGstring]
      Looped(r, l) ==
        Out(l.status, 0, to - from, l.set, r)
      Got(r) ==
        IF r.status = "null" THEN Out("ok", 0, 0, {}, r)
        ELSE IF r.status # "ok" THEN Out(r.status, 0, to - from, {}, r)
        ELSE Looped(r, ExtentsLoop(r.line.glyphs, 1, from, to, 0, {}))
  IN IF array_size < to - from THEN Out("error", -1, to - from, {}, none)
     ELSE IF CheckRange(text, from, to) = "error"
     THEN Out("error", -1, to - from, {}, none)
     ELSE IF CheckRange(text, from, to) = "empty"
     THEN Out("ok", 0, to - from, {}, none)
     ELSE Got(get_gstring(fr, text, fp, ps, from, to, ctl))

InitExtents ==
  /\ mt \in TextsUpTo({ChA, NL}, MaxExtLen)
  /\ faceprop = [from |-> 0, to |-> 0, face |-> 0]
  /\ control \in {control_noop,
                  [control_noop EXCEPT !.two_dimensional = TRUE]}
  /\ frame = Frame0
  /\ ticks = Ticks0
  /\ rfrom \in 0..Len(mt)
  /\ rpos = 0
  /\ rto \in rfrom..(Len(mt) + 1)
  /\ gstring = NoGstring
  /\ logical = <<>>
  /\ pc = "start"
  /\ props = <<>>
  /\ result = 0
  /\ calls = 0
  /\ args \in [array_size : 0..(MaxExtLen + 1)]
  /\ obj = 0
  /\ core = 0
  /\ plist = <<>>

\* a call mdraw_text_per_char_extents (frame, mt, rfrom, rto, control, ..)
PerCharExtents ==
  /\ pc = "start"
  /\ \E r \in {mdraw_text_per_char_extents(frame, mt, faceprop, props, rfrom,
                                           rto, control, args.array_size)} :
       /\ result' = [ret |-> r.ret, num |-> r.num, set |-> r.set]
       /\ props' = r.props
       /\ gstring' = r.line
       /\ pc' = CASE r.status = "ok" -> "measured"
                  [] r.status = "error" -> "error"
                  [] r.status = "crash" -> "crashed"
                  [] OTHER -> "hung"
  /\ UNCHANGED <<mt, faceprop, control, frame, ticks, rfrom, rpos, rto,
                 logical, calls, args, obj, core, plist>>

NextExtents == PerCharExtents

SpecExtents == InitExtents /\ [][NextExtents]_vars

\* C14: when mdraw_text_per_char_extents returns 0 the value stored in
\* *num_chars_return is the number of array elements it has set, one per
\* character measured (with two_dimensional those of the first physical
\* line only); when array_size < to - from it returns -1, stores to - from
\* and sets nothing
C14_NumCharsIsElementsSet ==
  /\ pc = "measured" =>
       /\ result.ret = 0
       /\ result.num = Cardinality(result.set)
       /\ result.set = 0..(result.num - 1)
       /\ control.two_dimensional =>
            \A i \in result.set : rfrom + i < gstring.to
  /\ (pc # "start" /\ args.array_size < rto - rfrom) =>
       /\ pc = "error"
       /\ result = [ret |-> -1, num |-> rto - rfrom, set |-> {}]

(* --------------------------- managed objects -------------------------- *)
\* the largest value of the 16-bit member ref_count
RefCountMax == 65535
MaxWord == 3       \* largest value of a word of record->counts (reduced)
MaxObjCalls == 12  \* most m17n_object_ref / m17n_object_unref calls

\* m17n_object (size, freer): the members of the new object; freed counts
\* the runs of its freer
m17n_object ==
  [ref_count |-> 1, ref_count_extended |-> FALSE, counts |-> <<>>,
   freed |-> 0]

\* the index of the first word of counts that is not w, or 0 when the loop
\* over the words runs past the last of them
FirstNot(counts, w) ==
  LET ks == {k \in 1..Len(counts) : counts[k] # w}
  IN IF ks = {} THEN 0 ELSE CHOOSE k \in ks : \A j \in ks : k <= j

\* m17n_object_ref (object): the object after the call and the value
\* returned
m17n_object_ref(o) ==
  LET Count(counts, k) ==
        [i \in 1..(Len(counts) + (IF counts[k] + 1 = MaxWord THEN 1 ELSE 0))
           |-> IF i < k THEN 0
               ELSE IF i = k THEN counts[k] + 1
               ELSE IF i <= Len(counts) THEN counts[i] ELSE 0]
      Extended(counts) ==
        [obj |-> [o EXCEPT !.ref_count = IF o.ref_count_extended THEN @ ELSE 0,
                           !.ref_count_extended = TRUE,
                           !.counts = Count(counts, FirstNot(counts, MaxWord))],
         ret |-> -1]
  IN IF ~o.ref_count_extended /\ o.ref_count < RefCountMax
     THEN [obj |-> [o EXCEPT !.ref_count = @ + 1], ret |-> o.ref_count + 1]
     ELSE Extended(IF o.ref_count_extended THEN o.counts ELSE <<0>>)

\* m17n_object_unref (object)
m17n_object_unref(o) ==
  LET Count(counts, k) ==
        [i \in 1..Len(counts) |->
           IF i < k THEN MaxWord
           ELSE IF i = k THEN counts[k] - 1 ELSE counts[i]]
      Counted(counts) ==
        IF counts[1] = 0
        THEN [obj |-> [o EXCEPT !.ref_count_extended = FALSE,
                                !.ref_count = (@ - 1) % (RefCountMax + 1),
                                !.counts = <<>>],
              ret |-> -1]
        ELSE [obj |-> [o EXCEPT !.counts = counts], ret |-> -1]
  IN IF ~o.ref_count_extended
     THEN IF (o.ref_count - 1) % (RefCountMax + 1) = 0
          THEN [obj |-> [o EXCEPT !.ref_count = 0, !.freed = @ + 1],
                ret |-> 0]
          ELSE [obj |-> [o EXCEPT !.ref_count = (@ - 1) % (RefCountMax + 1)],
                ret |-> (o.ref_count - 1) % (RefCountMax + 1)]
     ELSE Counted(Count(o.counts, FirstNot(o.counts, 0)))

\* the objects at the start: a new object, and one that a holder has
\* referenced until its count is two below the end of the 16-bit member
InitObject ==
  /\ mt = <<>>
  /\ faceprop = [from |-> 0, to |-> 0, face |-> 0]
  /\ control = control_noop
  /\ frame = Frame0
  /\ ticks = Ticks0
  /\ rfrom = 0
  /\ rpos = 0
  /\ rto = 0
  /\ gstring = NoGstring
  /\ logical = <<>>
  /\ pc = "start"
  /\ props = <<>>
  /\ result = 0
  /\ calls = 0
  /\ args \in {[refs |-> 0, unrefs |-> 0],
               [refs |-> RefCountMax - 3, unrefs |-> 0]}
  /\ obj = [m17n_object EXCEPT !.ref_count = 1 + args.refs]
  /\ core = 0
  /\ plist = <<>>

\* a call m17n_object_ref (obj) on an object that has not been freed
ObjectRef ==
  /\ obj.freed = 0
  /\ calls < MaxObjCalls
  /\ obj' = m17n_object_ref(obj).obj
  /\ result' = m17n_object_ref(obj).ret
  /\ args' = [args EXCEPT !.refs = @ + 1]
  /\ pc' = "ref"
  /\ calls' = calls + 1
  /\ UNCHANGED <<mt, faceprop, control, frame, ticks, rfrom, rpos, rto,
                 gstring, logical, props, core, plist>>

\* a call m17n_object_unref (obj) on an object that has not been freed
ObjectUnref ==
  /\ obj.freed = 0
  /\ calls < MaxObjCalls
  /\ obj' = m17n_object_unref(obj).obj
  /\ result' = m17n_object_unref(obj).ret
  /\ args' = [args EXCEPT !.unrefs = @ + 1]
  /\ pc' = "unref"
  /\ calls' = calls + 1
  /\ UNCHANGED <<mt, faceprop, control, frame, ticks, rfrom, rpos, rto,
                 gstring, logical, props, core, plist>>

NextObject == ObjectRef \/ ObjectUnref

SpecObject == InitObject /\ [][NextObject]_vars

\* the reference count after the calls made so far
LogicalCount == 1 + args.refs - args.unrefs

\* C15: m17n_object_ref and m17n_object_unref return the resulting
\* reference count when it is below 0x10000 and -1 otherwise, and
\* m17n_object_unref returns 0 exactly when the call frees the object
C15_ReturnsCount ==
  /\ pc \in {"ref", "unref"} =>
       result = IF LogicalCount < RefCountMax + 1 THEN LogicalCount ELSE -1
  /\ pc = "unref" => (result = 0 <=> obj.freed = 1)

\* the reference count the members of the object stand for: the words of
\* counts from the word k on are the digits of the count above 0xFFFF
RECURSIVE WordsValue(_, _)
WordsValue(counts, k) ==
  IF k > Len(counts) THEN 0
  ELSE counts[k] + (MaxWord + 1) * WordsValue(counts, k + 1)

\* C16: the count of a managed object is 1 + (#ref) - (#unref), also when
\* it is held in the words of the extended counter, and the freer has run
\* (once) exactly when that count is zero
C16_CountIsRefsMinusUnrefs ==
  /\ LogicalCount = IF obj.ref_count_extended
                    THEN RefCountMax + WordsValue(obj.counts, 1)
                    ELSE obj.ref_count
  /\ obj.freed = IF LogicalCount = 0 THEN 1 ELSE 0

(* ------------------------ library initialization ---------------------- *)
MaxCoreCalls == 8  \* most M17N_INIT / M17N_FINI calls

\* the counters at program start; inits and finis count the runs of the
\* module initializations and of the module finalizations
CoreStart ==
  [core_initialized |-> 0, shell_initialized |-> 0, gui_initialized |-> 0,
   merror_code |-> 0, inits |-> 0, finis |-> 0]

\* a variant of m17n_fini_core that lacks the test for a count of zero
FiniCoreUnguarded(c) ==
  IF c.core_initialized - 1 > 0
  THEN [c EXCEPT !.core_initialized = @ - 1]
  ELSE [c EXCEPT !.core_initialized = @ - 1, !.finis = @ + 1]

\* m17n_init_core (): ok tells whether the initializations of the modules
\* all succeed
m17n_init_core(c, ok) ==
  IF c.core_initialized # 0
  THEN [c EXCEPT !.core_initialized = @ + 1, !.merror_code = 0]
  ELSE [c EXCEPT !.core_initialized = @ + 1,
                 !.merror_code = IF ok THEN 0 ELSE -1,
                 !.inits = @ + 1]

\* m17n_fini_core ()
m17n_fini_core(c) ==
  IF c.core_initialized = 0 THEN c
  ELSE IF c.core_initialized - 1 > 0
  THEN [c EXCEPT !.core_initialized = @ - 1]
  ELSE [c EXCEPT !.core_initialized = @ - 1, !.finis = @ + 1]

\* m17n_status ()
m17n_status(c) ==
  IF c.gui_initialized # 0 THEN "M17N_GUI_INITIALIZED"
  ELSE IF c.shell_initialized # 0 THEN "M17N_SHELL_INITIALIZED"
  ELSE IF c.core_initialized # 0 THEN "M17N_CORE_INITIALIZED"
  ELSE "M17N_NOT_INITIALIZED"

\* args.outstanding is the number of M17N_INIT calls not yet balanced by a
\* M17N_FINI
InitCore ==
  /\ mt = <<>>
  /\ faceprop = [from |-> 0, to |-> 0, face |-> 0]
  /\ control = control_noop
  /\ frame = Frame0
  /\ ticks = Ticks0
  /\ rfrom = 0
  /\ rpos = 0
  /\ rto = 0
  /\ gstring = NoGstring
  /\ logical = <<>>
  /\ pc = "start"
  /\ props = <<>>
  /\ result = m17n_status(CoreStart)
  /\ calls = 0
  /\ args = [outstanding |-> 0]
  /\ obj = 0
  /\ core = CoreStart
  /\ plist = <<>>

\* M17N_INIT (), followed by m17n_status ()
CoreInit ==
  /\ calls < MaxCoreCalls
  /\ \E ok \in BOOLEAN : core' = m17n_init_core(core, ok)
  /\ result' = m17n_status(core')
  /\ args' = [outstanding |-> args.outstanding + 1]
  /\ pc' = "init"
  /\ calls' = calls + 1
  /\ UNCHANGED <<mt, faceprop, control, frame, ticks, rfrom, rpos, rto,
                 gstring, logical, props, obj, plist>>

\* M17N_FINI (), followed by m17n_status ()
CoreFini ==
  /\ calls < MaxCoreCalls
  /\ core' = m17n_fini_core(core)
  /\ result' = m17n_status(core')
  /\ args' = [outstanding |-> IF args.outstanding = 0 THEN 0
                              ELSE args.outstanding - 1]
  /\ pc' = "fini"
  /\ calls' = calls + 1
  /\ UNCHANGED <<mt, faceprop, control, frame, ticks, rfrom, rpos, rto,
                 gstring, logical, props, obj, plist>>

NextCore == CoreInit \/ CoreFini

SpecCore == InitCore /\ [][NextCore]_vars

\* C17: the core modules are initialized only by a M17N_INIT made with no
\* M17N_INIT outstanding and finalized exactly by the M17N_FINI that
\* balances it; a M17N_FINI with none outstanding changes nothing and the
\* count is never negative; m17n_status reports M17N_CORE_INITIALIZED
\* exactly while the count is positive
C17_NestedInitFini ==
  [][/\ core'.core_initialized >= 0
     /\ core'.core_initialized = args'.outstanding
     /\ (result' = "M17N_CORE_INITIALIZED") <=> (core'.core_initialized > 0)
     /\ pc' = "init" =>
          /\ core'.inits = core.inits + (IF args.outstanding = 0 THEN 1 ELSE 0)
          /\ core'.finis = core.finis
     /\ pc' = "fini" =>
          /\ core'.finis = core.finis + (IF args.outstanding = 1 THEN 1 ELSE 0)
          /\ core'.inits = core.inits
          /\ args.outstanding = 0 => core' = core]_vars

\* two nested M17N_INIT, the two M17N_FINI that balance them and one more
C17_Witness ==
  /\ calls = 5
  /\ pc = "fini"
  /\ core.inits = 1 /\ core.finis = 1
  /\ core.core_initialized = 0
  /\ result = "M17N_NOT_INITIALIZED"

(* --------------------------- property lists --------------------------- *)
MaxPuts == 4       \* most calls on the property list and its values

\* the symbols used as keys: Mnil, a managing key and a plain key
Mnil == "nil"
PlistKeys == {"Mobject", "Mname"}
managing_key(key) == key = "Mobject"

\* the managed objects that serve as values; 0 stands for NULL
ObjIds == {1, 2}

\* MPLIST_FIND (plist, key): the index of the first property with the key,
\* or that of the tail
MPLIST_FIND(pl, key) ==
  LET ks == {k \in 1..Len(pl) : pl[k].key = key}
  IN IF ks = {} THEN Len(pl) + 1 ELSE CHOOSE k \in ks : \A j \in ks : k <= j

\* mplist_get (plist, key)
mplist_get(pl, key) ==
  IF MPLIST_FIND(pl, key) > Len(pl) THEN 0 ELSE pl[MPLIST_FIND(pl, key)].val

\* mplist_put (plist, key, val) on the objects of heap: ret is the index of
\* the sublist returned (0 for NULL).  Status "undefined": the old value was
\* freed by M17N_OBJECT_UNREF and is then passed to M17N_OBJECT_REF.
mplist_put(pl, heap, key, val) ==
  LET i == MPLIST_FIND(pl, key)
      old == IF i > Len(pl) THEN 0 ELSE pl[i].val
      unreffed == IF managing_key(key) /\ i <= Len(pl) /\ old # 0
                  THEN [heap EXCEPT ![old] = m17n_object_unref(@).obj]
                  ELSE heap
      reffed == IF managing_key(key)
                THEN [unreffed EXCEPT ![val] = m17n_object_ref(@).obj]
                ELSE unreffed
      set == [n \in 1..MAX(Len(pl), i) |->
                IF n = i THEN [key |-> key, val |-> val] ELSE pl[n]]
  IN IF key = Mnil
     THEN [status |-> "error", ret |-> 0, plist |-> pl, heap |-> heap]
     ELSE IF managing_key(key) /\ unreffed[val].freed > 0
     THEN [status |-> "undefined", ret |-> i, plist |-> set,
           heap |-> unreffed]
     ELSE [status |-> "ok", ret |-> i, plist |-> set, heap |-> reffed]

\* an empty plist and two new objects, each held by the caller (args.held)
InitPlist ==
  /\ mt = <<>>
  /\ faceprop = [from |-> 0, to |-> 0, face |-> 0]
  /\ control = control_noop
  /\ frame = Frame0
  /\ ticks = Ticks0
  /\ rfrom = 0
  /\ rpos = 0
  /\ rto = 0
  /\ gstring = NoGstring
  /\ logical = <<>>
  /\ pc = "start"
  /\ props = <<>>
  /\ result = 0
  /\ calls = 0
  /\ args = [held |-> ObjIds, key |-> Mnil, val |-> 0]
  /\ obj = [v \in ObjIds |-> m17n_object]
  /\ core = 0
  /\ plist = <<>>

\* the values the caller can pass for the key: for a managing key an object
\* it holds or one it got from the plist, else any pointer
PutValues(key) ==
  IF managing_key(key)
  THEN {v \in ObjIds : obj[v].freed = 0
                       /\ (v \in args.held \/ mplist_get(plist, key) = v)}
  ELSE {0} \cup ObjIds

\* a call mplist_put (plist, key, val).  A call with undefined behaviour
\* either goes on with the freed object untouched or ends the program.
MplistPut ==
  /\ pc \in {"start", "put", "error", "released"}
  /\ calls < MaxPuts
  /\ \E key \in PlistKeys \cup {Mnil} :
       \E val \in PutValues(key) :
         \E r \in {mplist_put(plist, obj, key, val)} :
           /\ args' = [args EXCEPT !.key = key, !.val = val]
           /\ pc' \in CASE r.status = "ok" -> {"put"}
                        [] r.status = "error" -> {"error"}
                        [] OTHER -> {"corrupt", "crashed"}
           /\ obj' = r.heap
           /\ plist' = IF pc' = "crashed" THEN plist ELSE r.plist
           /\ result' = IF pc' = "crashed" THEN 0 ELSE r.ret
  /\ calls' = calls + 1
  /\ UNCHANGED <<mt, faceprop, control, frame, ticks, rfrom, rpos, rto,
                 gstring, logical, props, core>>

\* the caller gives up its reference to the object v: m17n_object_unref (v)
Release ==
  /\ pc \in {"start", "put", "error", "released"}
  /\ calls < MaxPuts
  /\ \E v \in args.held :
       /\ obj' = [obj EXCEPT ![v] = m17n_object_unref(@).obj]
       /\ args' = [args EXCEPT !.held = @ \ {v}]
  /\ pc' = "released"
  /\ calls' = calls + 1
  /\ UNCHANGED <<mt, faceprop, control, frame, ticks, rfrom, rpos, rto,
                 gstring, logical, props, result, core, plist>>

NextPlist == MplistPut \/ Release

SpecPlist == InitPlist /\ [][NextPlist]_vars

\* a step of the call mplist_put (plist, args'.key, args'.val)
PutStep == pc' \in {"put", "error", "corrupt", "crashed"}

\* C18: mplist_put with a key other than Mnil sets the value of the first
\* property with the key and leaves the length, the order and the other
\* properties, or appends the property when there is none; it returns the
\* sublist that starts at the property, and mplist_get gives the value
\* afterwards.  With Mnil it returns NULL and leaves the plist.
C18_PutSetsOrAppends ==
  [][PutStep =>
       LET key == args'.key
           i == MPLIST_FIND(plist, key)
       IN IF key = Mnil
          THEN pc' = "error" /\ result' = 0 /\ plist' = plist
          ELSE /\ pc' = "put"
               /\ result' = i
               /\ Len(plist') = IF i > Len(plist) THEN Len(plist) + 1
                                ELSE Len(plist)
               /\ plist'[i] = [key |-> key, val |-> args'.val]
               /\ \A n \in 1..Len(plist) : n # i => plist'[n] = plist[n]
               /\ mplist_get(plist', key) = args'.val]_vars

\* C19: mplist_put with a managing key takes one from the reference count
\* of the replaced value and adds one to that of the new value; when both
\* are the same object its count is unchanged and it is not freed during
\* the call
C19_SameValueKeepsCount ==
  [][(PutStep /\ managing_key(args'.key)) =>
       LET old == mplist_get(plist, args'.key)
           new == args'.val
       IN IF old = new
          THEN /\ obj'[new].ref_count = obj[new].ref_count
               /\ obj'[new].freed = obj[new].freed
          ELSE /\ obj'[new].ref_count = obj[new].ref_count + 1
               /\ old # 0 => obj'[old].ref_count = obj[old].ref_count - 1]_vars

(* ------------------------ tabs, right to left ------------------------- *)
\* the width the right-to-left re-sizing gives the TAB glyph g: tab_width
\* less the width accumulated from the right end, less the adjacent
\* paddings, and not below 2
RtlTabWidth(gs, g, tab_width) ==
  LET w == gs.indent + SumWidth(gs.glyphs, Len(gs.glyphs) - 1)
                     - SumWidth(gs.glyphs, g + 1)
      Pad(k) == IF MGLYPH(gs.glyphs, k).type = "PAD"
                THEN MGLYPH(gs.glyphs, k).width ELSE 0
  IN MAX(2, tab_width - (w % tab_width) - Pad(g + 1) - Pad(g - 1))

\* C20: with orientation_reversed, after layout_glyph_string every TAB
\* glyph has the width tab_width - (w mod tab_width), w being the indent
\* plus the widths of the glyphs to its right, less the adjacent paddings
\* and not below 2
C20_RtlTabsResized ==
  (pc = "laid" /\ control.orientation_reversed) =>
    \A g \in 1..(Len(gstring.glyphs) - 2) :
      (MGLYPH(gstring.glyphs, g).type \in {"SPACE", "CHAR"}
       /\ MGLYPH(gstring.glyphs, g).c = TAB) =>
        MGLYPH(gstring.glyphs, g).width
          = RtlTabWidth(gstring, g,
                        frame.space_width
                        * (IF control.tab_width # 0 THEN control.tab_width
                           ELSE 8))

(* --------------------------- chains of lines -------------------------- *)
MaxChainLen == 3   \* longest text of the chain specification

\* texts with a position to ask for; lines of any width, or limited to less
\* than one glyph (4) or to one glyph (8), with and without a line breaker
InitChain ==
  /\ mt \in TextsUpTo({ChA, SPC, NL}, MaxChainLen) \ {<<>>}
  /\ faceprop = [from |-> 0, to |-> 0, face |-> 0]
  /\ control \in {[control_noop EXCEPT !.two_dimensional = TRUE,
                                       !.max_line_width = w,
                                       !.line_break = b] :
                    w \in {0, 4, 8}, b \in {"null", "default"}}
  /\ frame = Frame0
  /\ ticks = Ticks0
  /\ rfrom \in 0..(Len(mt) - 1)
  /\ rpos = 0
  /\ rto = Len(mt)
  /\ gstring = NoGstring
  /\ logical = <<>>
  /\ pc = "start"
  /\ props = <<>>
  /\ result = <<>>
  /\ calls = 0
  /\ args = 0
  /\ obj = 0
  /\ core = 0
  /\ plist = <<>>

\* the building branch of get_gstring (frame, mt, rfrom, rto, control): the
\* chain of glyph strings linked through next is kept in result
BuildLines ==
  /\ pc = "start"
  /\ \E b \in {BuildChain(frame, mt, faceprop, rfrom, rto, control)} :
       /\ result' = b.chain
       /\ pc' = IF b.diverged THEN "hung" ELSE "built"
  /\ UNCHANGED <<mt, faceprop, control, frame, ticks, rfrom, rpos, rto,
                 gstring, logical, props, calls, args, obj, core, plist>>

NextChain == BuildLines

SpecChain == InitChain /\ [][NextChain]_vars

\* C21: with two_dimensional the glyph strings of the consecutive physical
\* lines of the requested range are linked through next, across newlines as
\* across width_limit splits, each starting where its predecessor ends
C21_LinesLinked ==
  pc = "built" =>
    /\ \A k \in 1..(Len(result) - 1) : result[k + 1].from = result[k].to
    /\ result[Len(result)].to >= rto

\* C24: building the chain of a two_dimensional line wider than its
\* width_limit terminates, and every physical line of the chain covers at
\* least one character
C24_ChainTerminates ==
  /\ pc # "hung"
  /\ pc = "built" => \A k \in 1..Len(result) : result[k].to > result[k].from

(* --------------------------- combining marks -------------------------- *)
MaxMarkLen == 4    \* longest text of the combining-mark specification

\* texts of a base letter and marks of the classes 230, 220 and 0, composed
\* with the default face, whose font has no layouter
InitMarks ==
  /\ mt \in TextsUpTo({ChA, ACUTE, GRAVEBELOW, CIRCLE}, MaxMarkLen)
  /\ faceprop = [from |-> 0, to |-> 0, face |-> 0]
  /\ control = control_noop
  /\ frame = Frame0
  /\ ticks = Ticks0
  /\ rfrom = 0
  /\ rpos = 0
  /\ rto = Len(mt)
  /\ gstring = NoGstring
  /\ logical = <<>>
  /\ pc = "start"
  /\ props = <<>>
  /\ result = 0
  /\ calls = 0
  /\ args = 0
  /\ obj = 0
  /\ core = 0
  /\ plist = <<>>

NextMarks == Compose

SpecMarks == InitMarks /\ [][NextMarks]_vars

\* the character at position p of the text is a combining mark
IsMark(p) == CharCategory(mtext_ref_char(mt, p)) \in {"Mn", "Mc", "Me"}

\* the runs [a, b) of marks that follow a base character
MarkRuns ==
  {r \in (1..Len(mt)) \X (1..Len(mt)) :
     /\ r[1] < r[2]
     /\ ~IsMark(r[1] - 1)
     /\ \A p \in r[1]..(r[2] - 1) : IsMark(p)
     /\ r[2] = Len(mt) \/ ~IsMark(r[2])}

\* the combining class of the character of the glyph at index k
ClassAt(k) == CharCombiningClass(MGLYPH(gstring.glyphs, k).c)

\* the glyphs of the run r are a permutation of its marks, and each has the
\* by-class combining code of its own class
MarksKept(r) ==
  /\ {MGLYPH(gstring.glyphs, k).pos : k \in (r[1] + 1)..r[2]}
       = r[1]..(r[2] - 1)
  /\ \A k \in (r[1] + 1)..r[2] :
       /\ MGLYPH(gstring.glyphs, k).c
            = mtext_ref_char(mt, MGLYPH(gstring.glyphs, k).pos)
       /\ MGLYPH(gstring.glyphs, k).combining_code
            = MAKE_COMBINING_CODE_BY_CLASS(ClassAt(k))

\* C22 as stated: after compose_glyph_string the marks that follow a base
\* are a permutation of the input marks in non-decreasing combining class,
\* marks of equal class in their original order, each with the by-class
\* combining code of its class; the reordering terminates
C22_MarksSortedByClass ==
  /\ pc # "hung"
  /\ pc = "composed" =>
       \A r \in MarkRuns :
         /\ MarksKept(r)
         /\ \A j, k \in (r[1] + 1)..r[2] :
              j < k =>
                /\ ClassAt(j) <= ClassAt(k)
                /\ ClassAt(j) = ClassAt(k) =>
                     MGLYPH(gstring.glyphs, j).pos
                       < MGLYPH(gstring.glyphs, k).pos

\* C22 amended: a mark of class 0 keeps its place and no mark moves across
\* it; the marks between two such places are in non-decreasing class, those
\* of equal class in their original order
C22_MarksSortedBetweenClassZero ==
  /\ pc # "hung"
  /\ pc = "composed" =>
       \A r \in MarkRuns :
         /\ MarksKept(r)
         /\ \A j, k \in (r[1] + 1)..r[2] :
              j < k =>
                IF \E z \in j..k : ClassAt(z) = 0
                THEN MGLYPH(gstring.glyphs, j).pos
                       < MGLYPH(gstring.glyphs, k).pos
                ELSE /\ ClassAt(j) <= ClassAt(k)
                     /\ ClassAt(j) = ClassAt(k) =>
                          MGLYPH(gstring.glyphs, j).pos
                            < MGLYPH(gstring.glyphs, k).pos

\* a base with an acute above (230) and a grave below (220): the two marks
\* were exchanged
C22_Witness ==
  /\ pc = "composed"
  /\ mt = <<ChA, ACUTE, GRAVEBELOW>>
  /\ MGLYPH(gstring.glyphs, 2).c = GRAVEBELOW
  /\ MGLYPH(gstring.glyphs, 3).c = ACUTE

(* --------------------------- render_glyphs ---------------------------- *)
MaxRenderLen == 3  \* longest text of the rendering specification

\* the member code of MGlyph is unsigned: its value as the comparisons of
\* render_glyphs see it (30 of the 32 bits, MCHAR_INVALID_CODE being the
\* largest value)
UnsignedCode(code) == code % 1073741824

\* the test (g->code < 0) of render_glyphs
CodeNegative(code) == UnsignedCode(code) < 0

\* g->enabled as draw_background leaves it when drawing [from, to)
Enabled(glyphs, g, from, to) ==
  MGLYPH(glyphs, g).pos >= from /\ MGLYPH(glyphs, g).pos < to

\* the inner loop of render_glyphs: the end of the group that starts at
\* from_g
RECURSIVE GroupEnd(_, _, _, _, _, _)
GroupEnd(glyphs, from_g, g, gend, from, to) ==
  IF /\ g # gend
     /\ MGLYPH(glyphs, g).type = MGLYPH(glyphs, from_g).type
     /\ MGLYPH(glyphs, g).rface = MGLYPH(glyphs, from_g).rface
     /\ CodeNegative(MGLYPH(glyphs, g).code)
          = CodeNegative(MGLYPH(glyphs, from_g).code)
     /\ Enabled(glyphs, g, from, to)
  THEN GroupEnd(glyphs, from_g, g + 1, gend, from, to)
  ELSE g

\* the driver calls render_glyphs makes for the group [from_g, g)
GroupCalls(glyphs, from_g, g, reverse) ==
  LET first == MGLYPH(glyphs, from_g)
      rface == RFace(first.rface)
      width == SumWidth(glyphs, g) - SumWidth(glyphs, from_g)
      main ==
        IF first.type = "CHAR"
        THEN IF rface.rfont
                /\ UnsignedCode(first.code)
                     # UnsignedCode(MCHAR_INVALID_CODE)
             THEN <<[driver |-> "render", from |-> from_g, to |-> g,
                     width |-> 0]>>
             ELSE <<[driver |-> "draw_empty_boxes", from |-> from_g,
                     to |-> g, width |-> 0]>>
        ELSE IF first.type = "BOX"
        THEN <<[driver |-> "draw_box", from |-> from_g, to |-> from_g + 1,
                width |-> 0]>>
        ELSE <<>>
      sides ==
        IF first.type # "BOX" /\ rface.box # 0 /\ ~reverse
        THEN <<[driver |-> "draw_box", from |-> from_g, to |-> from_g + 1,
                width |-> width]>>
        ELSE <<>>
  IN Concat(main, sides)

\* render_glyphs (frame, win, x, y, width, gstring, from_idx, to_idx,
\* reverse, region) without a clip region: the driver calls in order
RECURSIVE render_glyphs(_, _, _, _, _, _, _)
render_glyphs(glyphs, g, gend, from, to, reverse, out) ==
  IF g = gend THEN out
  ELSE IF Enabled(glyphs, g, from, to)
  THEN render_glyphs(glyphs, GroupEnd(glyphs, g, g + 1, gend, from, to),
                     gend, from, to, reverse,
                     Concat(out,
                            GroupCalls(glyphs, g,
                                       GroupEnd(glyphs, g, g + 1, gend,
                                                from, to),
                                       reverse)))
  ELSE render_glyphs(glyphs, g + 1, gend, from, to, reverse, out)

RenderChars == {ChA, LRM, SPC}

\* texts with and without a glyph in the font, with a face over a part
InitRender ==
  /\ mt \in TextsUpTo(RenderChars, MaxRenderLen)
  /\ faceprop \in {p \in FaceProps(mt) : p.from < p.to \/ p.face = 0}
  /\ control = control_noop
  /\ frame = Frame0
  /\ ticks = Ticks0
  /\ rfrom = 0
  /\ rpos \in 0..Len(mt)
  /\ rto = Len(mt)
  /\ gstring = NoGstring
  /\ logical = <<>>
  /\ pc = "start"
  /\ props = <<>>
  /\ result = <<>>
  /\ calls = 0
  /\ args = 0
  /\ obj = 0
  /\ core = 0
  /\ plist = <<>>

\* the foreground pass of render_glyph_string for the positions
\* [rpos, rto) of the laid-out glyph string
RenderGlyphs ==
  /\ pc = "laid"
  /\ result' = render_glyphs(gstring.glyphs, 1, Len(gstring.glyphs) - 1,
                             rpos, rto, FALSE, <<>>)
  /\ pc' = "rendered"
  /\ UNCHANGED <<mt, faceprop, control, frame, ticks, rfrom, rpos, rto,
                 gstring, logical, props,
                 calls, args, obj, core, plist>>

NextRender == Compose \/ Layout \/ RenderGlyphs

SpecRender == InitRender /\ [][NextRender]_vars

\* the glyph at index k has a glyph code of its font
ValidCode(k) ==
  UnsignedCode(MGLYPH(gstring.glyphs, k).code)
    # UnsignedCode(MCHAR_INVALID_CODE)

\* some call of the driver named d covers the glyph at index k
HandedTo(d, k) ==
  \E n \in 1..Len(result) :
     /\ result[n].driver = d
     /\ result[n].from <= k
     /\ k < result[n].to

\* C23: every enabled Char glyph with a valid code whose face has a font is
\* handed to the font driver's render, every enabled Char glyph with an
\* invalid code or a face without font to draw_empty_boxes, every enabled
\* Box glyph to draw_box, and no group handed to a driver holds both
\* valid-code and invalid-code glyphs.
C23_GroupsByValidity ==
  pc = "rendered" =>
    /\ \A k \in 1..(Len(gstring.glyphs) - 2) :
         Enabled(gstring.glyphs, k, rpos, rto) =>
           LET g == MGLYPH(gstring.glyphs, k)
           IN /\ (g.type = "CHAR" /\ ValidCode(k) /\ RFace(g.rface).rfont)
                   => HandedTo("render", k)
              /\ (g.type = "CHAR" /\ ~(ValidCode(k) /\ RFace(g.rface).rfont))
                   => HandedTo("draw_empty_boxes", k)
              /\ g.type = "BOX" => HandedTo("draw_box", k)
    /\ \A n \in 1..Len(result) :
         \A j, k \in result[n].from..(result[n].to - 1) :
            ValidCode(j) = ValidCode(k)

(* ----------------------- termination of compose ----------------------- *)
\* the character compose_glyph_string reads at position p of mt
CharAt(p) == IF p < mtext_nchars(mt) THEN mtext_ref_char(mt, p) ELSE NL

\* the glyph indices of gstring made for position p
GlyphsAt(p) ==
  {k \in 1..Len(gstring.glyphs) :
     /\ gstring.glyphs[k].type # "ANCHOR"
     /\ gstring.glyphs[k].pos = p}

\* C25: compose_glyph_string terminates for every range with
\* from <= to <= text length + 1 and every control, also for a range that
\* ends at text length + 1 when two_dimensional is false; it appends at most
\* one glyph per character position, two for a control character, and ends
\* with gstring.to <= to.
C25_ComposeTerminates ==
  /\ pc # "hung"
  /\ pc = "composed" =>
       /\ gstring.to <= rto
       /\ \A p \in rfrom..rto :
            Cardinality(GlyphsAt(p))
              <= (IF (CharAt(p) <= 32 \/ CharAt(p) = 127)
                     /\ CharAt(p) \notin {SPC, NL, TAB}
                  THEN 2 ELSE 1)

(* --------------------------- shaping pass ----------------------------- *)
MaxShapeLen == 3   \* longest text of the shaping specification

\* texts of letters, marks and spaces, a part of which has the face whose
\* font declares a layouter
InitShape ==
  /\ mt \in TextsUpTo({ChA, ACUTE, SPC}, MaxShapeLen)
  /\ faceprop \in {[from |-> 0, to |-> 0, face |-> 0]}
                  \cup {[from |-> a, to |-> b, face |-> 3] :
                          a \in 0..Len(mt), b \in 0..Len(mt)}
  /\ faceprop.from < faceprop.to \/ faceprop.face = 0
  /\ control = control_noop
  /\ frame = Frame0
  /\ ticks = Ticks0
  /\ rfrom = 0
  /\ rpos = 0
  /\ rto = Len(mt)
  /\ gstring = NoGstring
  /\ logical = <<>>
  /\ pc = "start"
  /\ props = <<>>
  /\ result = <<>>
  /\ calls = 0
  /\ args = 0
  /\ obj = 0
  /\ core = 0
  /\ plist = <<>>

\* compose_glyph_string for [rfrom, rto), keeping the ranges its shaping
\* pass handed to mfont__flt_run
ComposeRuns ==
  /\ pc = "start"
  /\ \E c \in {compose_glyph_string(mt, faceprop, rfrom, rto, control)} :
        /\ ~c.diverged
        /\ gstring' = [alloc_gstring(frame, control) EXCEPT
                         !.from = c.from, !.to = c.to, !.glyphs = c.glyphs]
        /\ logical' = c.logical
        /\ result' = c.flt_runs
  /\ pc' = "shaped"
  /\ UNCHANGED <<mt, faceprop, control, frame, ticks, rfrom, rpos, rto,
                 props, calls, args, obj, core, plist>>

NextShape == ComposeRuns

SpecShape == InitShape /\ [][NextShape]_vars

\* the ranges handed to mfont__flt_run that hold glyph index k
RunsOf(k) ==
  {n \in 1..Len(result) : result[n].start <= k /\ k < result[n].end}

\* C26: every Char glyph whose face's realized font declares a layouter
\* lies in exactly one [start, end) range passed to mfont__flt_run; the
\* glyph that follows a sequence of by-class combining marks is not skipped.
C26_EveryLayouterGlyphShaped ==
  pc = "shaped" =>
    \A k \in 1..(Len(gstring.glyphs) - 2) :
       LET g == MGLYPH(gstring.glyphs, k)
       IN (g.type = "CHAR" /\ RFace(g.rface).rfont /\ Layouter(g.rface))
            => Cardinality(RunsOf(k)) = 1

(* ------------------------ transparent cache hit ----------------------- *)
\* a step that is a call of get_gstring which returns a line of the cached
\* chain
ReturnsCached ==
  /\ calls' = calls + 1
  /\ pc' = "got"
  /\ result'.hit

\* the measures of a glyph string that a caller reads
Measures(gs) ==
  [from |-> gs.from, to |-> gs.to, glyphs |-> gs.glyphs, width |-> gs.width,
   lbearing |-> gs.lbearing, rbearing |-> gs.rbearing,
   ascent |-> gs.ascent, descent |-> gs.descent,
   line_ascent |-> gs.line_ascent, line_descent |-> gs.line_descent]

\* C27: a glyph string returned from the cache has the covered range, the
\* glyphs, the widths and the line metrics of a glyph string built afresh
\* for the same text, pos, range end and control, also when the request
\* differs from the cached build only in cursor_width or cursor_bidi
C27_HitIsTransparent ==
  [][ReturnsCached =>
       Measures(gstring')
         = Measures(get_gstring(frame', mt, faceprop, <<>>, rfrom', rto',
                                control').line)]_vars

(* ----------------------- the line that holds pos ---------------------- *)
\* C28: whenever get_gstring does not return NULL the glyph string it
\* returns satisfies from <= pos < to, and its search along `next' never
\* steps onto a null link, for every pos in [0, text length] and every
\* to >= pos, to = pos included
C28_LineHoldsPos ==
  /\ pc # "crashed"
  /\ pc = "got" => (gstring.from <= rfrom /\ rfrom < gstring.to)

(* -------------------------- mdraw_glyph_info -------------------------- *)
MaxInfoLen == 2    \* longest text of the glyph-information specification

\* the first loop of mdraw_glyph_info: the lines from the one of `from' to
\* the one that holds pos.  w holds the position of the request and the
\* requests made so far, r is the answer of get_gstring to the last one.
RECURSIVE InfoLines(_, _, _, _, _, _, _)
InfoLine(fr, text, fp, pos, ctl, w, r) ==
  IF r.status # "ok"
  THEN [status |-> IF r.status # "null" THEN r.status
                   ELSE IF w.first THEN "error" ELSE "crash",
        props |-> r.props, line |-> r.line, reqs |-> w.reqs]
  ELSE IF r.line.to <= pos
  THEN InfoLines(fr, text, fp, r.props, pos, ctl,
                 [from |-> r.line.to, first |-> FALSE,
                  reqs |-> Concat(w.reqs,
                                  <<[pos |-> r.line.to, to |-> pos + 1]>>)])
  ELSE [status |-> "ok", props |-> r.props, line |-> r.line,
        reqs |-> w.reqs]

InfoLines(fr, text, fp, ps, pos, ctl, w) ==
  InfoLine(fr, text, fp, pos, ctl, w,
           get_gstring(fr, text, fp, ps, w.from, pos + 1, ctl))

\* the glyph of gs that mdraw_glyph_info reports for pos: its index, or 0
\* when the search leaves the buffer
InfoGlyph(gs, pos) ==
  LET Holds(k) == ~(MGLYPH(gs.glyphs, k).pos > pos
                    \/ MGLYPH(gs.glyphs, k).to <= pos)
      hits == {k \in 1..(Len(gs.glyphs) - 1) : Holds(k)}
      hitsR == {k \in 0..(Len(gs.glyphs) - 2) : Holds(k)}
      Min(S) == CHOOSE k \in S : \A j \in S : k <= j
      Max(S) == CHOOSE k \in S : \A j \in S : k >= j
      First(k) == Min({j \in 1..k :
                        \A i \in j..k : MGLYPH(gs.glyphs, i).to
                                          = MGLYPH(gs.glyphs, k).to})
  IN IF ~gs.control.orientation_reversed
     THEN IF hits = {} THEN 0 ELSE Min(hits)
     ELSE IF hitsR = {} \/ Max(hitsR) = 0 THEN 0 ELSE First(Max(hitsR))

\* the index after the glyphs of pos that follow glyph index k
RECURSIVE InfoRight(_, _, _)
InfoRight(glyphs, k, pos) ==
  IF MGLYPH(glyphs, k).pos = pos /\ MGLYPH(glyphs, k).type # "ANCHOR"
  THEN InfoRight(glyphs, k + 1, pos)
  ELSE k

\* the requests mdraw_glyph_info makes for the neighbours of the glyph at
\* index k of gs: the logically previous, the visually left, the logically
\* next and the visually right one, in this order
Neighbours(text, gs, k, from, pos, ctl) ==
  LET g == MGLYPH(gs.glyphs, k)
      line_from == MAX(gs.from, from)
      nocursor == IF ctl.cursor_width = 0 THEN 1 ELSE 0
      before == <<[pos |-> gs.from - 1, to |-> gs.from]>>
      after == <<[pos |-> gs.to, to |-> gs.to + 1]>>
      prev == IF g.pos > line_from THEN <<>>
              ELSE IF line_from > 0 THEN before ELSE <<>>
      left == IF k > 1 THEN <<>>
              ELSE IF ~ctl.orientation_reversed
              THEN IF line_from > 0 THEN before ELSE <<>>
              ELSE IF gs.to + nocursor <= mtext_nchars(text) THEN after
              ELSE <<>>
      next == IF g.to < gs.to THEN <<>>
              ELSE IF g.to + nocursor <= mtext_nchars(text)
              THEN <<[pos |-> g.to, to |-> g.to + 1]>>
              ELSE <<>>
      right == IF MGLYPH(gs.glyphs, InfoRight(gs.glyphs, k + 1, pos)).type
                    # "ANCHOR"
               THEN <<>>
               ELSE IF ~ctl.orientation_reversed
               THEN IF gs.to + nocursor <= mtext_nchars(text) THEN after
                    ELSE <<>>
               ELSE IF line_from > 0
               THEN <<[pos |-> gs.from - 1, to |-> gs.from]>>
               ELSE <<>>
  IN Concat(Concat(prev, left), Concat(next, right))

\* the calls of get_gstring for the requests N from the n-th on; a request
\* outside the text has no defined answer, a NULL answer is dereferenced
RECURSIVE Serve(_, _, _, _, _, _, _, _)
Served(fr, text, fp, ctl, N, n, done, r) ==
  IF r.status # "ok"
  THEN [status |-> IF r.status = "null" THEN "crash" ELSE r.status,
        props |-> r.props, reqs |-> done]
  ELSE Serve(fr, text, fp, r.props, ctl, N, n + 1, done)

Serve(fr, text, fp, ps, ctl, N, n, done) ==
  IF n > Len(N) THEN [status |-> "ok", props |-> ps, reqs |-> done]
  ELSE IF N[n].pos < 0 \/ N[n].pos > mtext_nchars(text)
  THEN [status |-> "undefined", props |-> ps,
        reqs |-> Concat(done, <<N[n]>>)]
  ELSE Served(fr, text, fp, ctl, N, n, Concat(done, <<N[n]>>),
              get_gstring(fr, text, fp, ps, N[n].pos, N[n].to, ctl))

\* mdraw_glyph_info (frame, mt, from, pos, control, info): the positions it
\* requests from get_gstring and the members from, to, line_from and
\* line_to of info
mdraw_glyph_info(fr, text, fp, ps, from, pos, ctl) ==
  LET none == [from |-> -1, to |-> -1, line_from |-> -1, line_to |-> -1]
      Done(m, k, s) ==
        [status |-> s.status, props |-> s.props, reqs |-> s.reqs,
         info |-> [from |-> MGLYPH(m.line.glyphs, k).pos,
                   to |-> MGLYPH(m.line.glyphs, k).to,
                   line_from |-> MAX(m.line.from, from),
                   line_to |-> m.line.to]]
      Found(m, k) ==
        IF k = 0
        THEN [status |-> "crash", props |-> m.props, reqs |-> m.reqs,
              info |-> none]
        ELSE Done(m, k,
                  Serve(fr, text, fp, m.props, ctl,
                        Neighbours(text, m.line, k, from, pos, ctl), 1,
                        m.reqs))
      Info(m) ==
        IF m.status # "ok"
        THEN [status |-> m.status, props |-> m.props, reqs |-> m.reqs,
              info |-> none]
        ELSE Found(m, InfoGlyph(m.line, pos))
  IN IF from < 0 \/ pos < from \/ pos > mtext_nchars(text)
     THEN [status |-> "error", props |-> ps, reqs |-> <<>>, info |-> none]
     ELSE Info(InfoLines(fr, text, fp, ps, pos, ctl,
                         [from |-> from, first |-> TRUE,
                          reqs |-> <<[pos |-> from, to |-> pos + 1]>>]))

InfoControls ==
  {[control_noop EXCEPT !.two_dimensional = d, !.with_cursor = c # 0,
                        !.cursor_width = c, !.orientation_reversed = o] :
     d \in BOOLEAN, c \in {0, 2}, o \in BOOLEAN}

InitInfo ==
  /\ mt \in TextsUpTo({ChA, NL}, MaxInfoLen)
  /\ faceprop = [from |-> 0, to |-> 0, face |-> 0]
  /\ control \in InfoControls
  /\ frame = Frame0
  /\ ticks = Ticks0
  /\ rfrom \in 0..Len(mt)
  /\ rpos \in 0..Len(mt)
  /\ rto = 0
  /\ gstring = NoGstring
  /\ logical = <<>>
  /\ pc = "start"
  /\ props = <<>>
  /\ result = <<>>
  /\ calls = 0
  /\ args = 0
  /\ obj = 0
  /\ core = 0
  /\ plist = <<>>

\* the call mdraw_glyph_info (frame, mt, rfrom, rpos, control, info)
GlyphInfo ==
  /\ pc = "start"
  /\ \E r \in {mdraw_glyph_info(frame, mt, faceprop, props, rfrom, rpos,
                                control)} :
       /\ result' = r.reqs
       /\ args' = r.info
       /\ props' = r.props
       /\ pc' = CASE r.status = "ok" -> "informed"
                  [] r.status = "error" -> "error"
                  [] r.status = "undefined" -> "undefined"
                  [] r.status = "hang" -> "hung"
                  [] OTHER -> "crashed"
  /\ UNCHANGED <<mt, faceprop, control, frame, ticks, rfrom, rpos, rto,
                 gstring, logical, calls, obj, core, plist>>

NextInfo == GlyphInfo

SpecInfo == InitInfo /\ [][NextInfo]_vars

\* C29: mdraw_glyph_info, for every 0 <= from <= pos, requests glyph
\* strings and text properties only at positions inside [0, text length];
\* for the logically previous or the visually left neighbour it never asks
\* for position -1, also when from > 0 and the line of pos starts at 0
C29_RequestsInsideText ==
  (pc # "start" /\ 0 <= rfrom /\ rfrom <= rpos) =>
    \A n \in 1..Len(result) :
       0 <= result[n].pos /\ result[n].pos <= mtext_nchars(mt)

(* ------------------- m17n_init_win and m17n_fini_win ------------------ *)
MaxWinCalls == 5   \* most calls of the window-layer functions

\* the window layer before any call: win_initialized, the count kept by
\* m17n_init and m17n_fini, whether the GUI modules are initialized,
\* whether m17n__device_library_list exists, the flag `initialized' of the
\* device driver, and the numbers of calls made to m17n_init, m17n_fini,
\* the finalizers of the GUI modules and the driver's init and fini
WinStart ==
  [win_initialized |-> 0, shell_initialized |-> 0, gui |-> FALSE,
   list |-> FALSE, driver_initialized |-> FALSE, crashed |-> FALSE,
   init_calls |-> 0, fini_calls |-> 0, gui_finis |-> 0,
   driver_inits |-> 0, driver_finis |-> 0]

\* m17n_init (): counts its calls as M17N_INIT does
m17n_init(c) ==
  [c EXCEPT !.init_calls = @ + 1, !.shell_initialized = @ + 1]

\* m17n_fini (): the call that balances the first m17n_init finalizes
m17n_fini(c) ==
  [c EXCEPT !.fini_calls = @ + 1,
            !.shell_initialized = IF @ > 0 THEN @ - 1 ELSE 0]

\* m17n_init_win (): ok tells whether m17n_init leaves merror_code at
\* MERROR_NONE, okg whether the GUI modules all initialize
m17n_init_win(c, ok, okg) ==
  IF c.win_initialized # 0
  THEN [c EXCEPT !.win_initialized = @ + 1]
  ELSE IF ~ok
  THEN [m17n_init(c) EXCEPT !.win_initialized = 1]
  ELSE IF ~okg
  THEN [m17n_init(c) EXCEPT !.win_initialized = 1, !.gui = TRUE]
  ELSE [m17n_init(c) EXCEPT !.win_initialized = 1, !.gui = TRUE,
                            !.list = TRUE, !.driver_initialized = FALSE]

\* m17n_fini_win (): walking a device library list that does not exist
\* dereferences NULL
m17n_fini_win(c) ==
  IF c.win_initialized > 1
  THEN m17n_fini([c EXCEPT !.win_initialized = @ - 1])
  ELSE IF ~c.list
  THEN [c EXCEPT !.win_initialized = 0, !.crashed = TRUE]
  ELSE m17n_fini(
         [c EXCEPT !.win_initialized = 0,
                   !.driver_finis = IF c.driver_initialized THEN @ + 1
                                    ELSE @,
                   !.driver_initialized = FALSE,
                   !.list = FALSE, !.gui = FALSE, !.gui_finis = @ + 1])

\* mframe (plist) for the device of the driver: ok tells whether the
\* driver's init succeeds
mframe(c, ok) ==
  IF c.driver_initialized \/ ~ok THEN c
  ELSE [c EXCEPT !.driver_initialized = TRUE, !.driver_inits = @ + 1]

InitWinLayer ==
  /\ mt = <<>>
  /\ faceprop = [from |-> 0, to |-> 0, face |-> 0]
  /\ control = control_noop
  /\ frame = Frame0
  /\ ticks = Ticks0
  /\ rfrom = 0
  /\ rpos = 0
  /\ rto = 0
  /\ gstring = NoGstring
  /\ logical = <<>>
  /\ pc = "run"
  /\ props = <<>>
  /\ result = 0
  /\ calls = 0
  /\ args = 0
  /\ obj = 0
  /\ core = WinStart
  /\ plist = <<>>

InitWin ==
  /\ pc = "run"
  /\ calls < MaxWinCalls
  /\ \E ok \in BOOLEAN, okg \in BOOLEAN :
       core' = m17n_init_win(core, ok, okg)
  /\ calls' = calls + 1
  /\ UNCHANGED <<mt, faceprop, control, frame, ticks, rfrom, rpos, rto,
                 gstring, logical, pc, props, result, args, obj, plist>>

FiniWin ==
  /\ pc = "run"
  /\ calls < MaxWinCalls
  /\ \E c \in {m17n_fini_win(core)} :
       /\ core' = c
       /\ pc' = IF c.crashed THEN "crashed" ELSE "run"
  /\ calls' = calls + 1
  /\ UNCHANGED <<mt, faceprop, control, frame, ticks, rfrom, rpos, rto,
                 gstring, logical, props, result, args, obj, plist>>

\* mframe is called while the device library list exists
Mframe ==
  /\ pc = "run"
  /\ calls < MaxWinCalls
  /\ core.list
  /\ \E ok \in BOOLEAN : core' = mframe(core, ok)
  /\ calls' = calls + 1
  /\ UNCHANGED <<mt, faceprop, control, frame, ticks, rfrom, rpos, rto,
                 gstring, logical, pc, props, result, args, obj, plist>>

NextWin == InitWin \/ FiniWin \/ Mframe

SpecWin == InitWinLayer /\ [][NextWin]_vars

\* C30: over any sequence of m17n_init_win and m17n_fini_win calls,
\* m17n_fini is invoked as many times as m17n_init was (never more often,
\* and equally often once every m17n_init_win is balanced); the GUI modules
\* and drivers are finalized only by the m17n_fini_win that balances the
\* first m17n_init_win; after N calls of m17n_init_win the lower layers
\* stay initialized until the N-th m17n_fini_win; a driver's fini is called
\* only after its init and at most once per init.
C30_WinInitFiniBalanced ==
  /\ core.fini_calls <= core.init_calls
  /\ (core.win_initialized = 0 /\ ~core.crashed)
       => core.fini_calls = core.init_calls
  /\ core.win_initialized > 0 => core.shell_initialized > 0
  /\ core.gui_finis <= core.init_calls
  /\ core.driver_finis <= core.driver_inits
  /\ core.driver_inits - core.driver_finis
       = (IF core.driver_initialized THEN 1 ELSE 0)

====
